---- MODULE Spec2Model ----
(***************************************************************************)
(* Model of the stream multiplexing substrate of quic-go: the streams      *)
(* manager (streams_map.go), its incoming quadrants                        *)
(* (streams_map_incoming_generic.go / streams_map_incoming_uni.go), its    *)
(* outgoing quadrants, and the ACK frame codec (internal/wire).            *)
(*                                                                         *)
(* Threads are goroutines.  A critical section guarded by the quadrant's   *)
(* mutex is one atomic step; everything the code does outside the mutex    *)
(* (the unlocked read of highestStream in GetOrOpenStream, the Signal      *)
(* after Unlock in CloseWithError, the hand-over between the four          *)
(* quadrants in streamsMap.CloseWithError, the time between a Signal and   *)
(* the woken goroutine re-acquiring the mutex) is a step boundary.         *)
(* SpecLock unfolds the critical sections of an incoming quadrant: there   *)
(* every Lock, RLock, Unlock and cond.Wait is a step of its own.           *)
(***************************************************************************)
EXTENDS Integers, Sequences, FiniteSets, TLC

\* ------------------------------------------------------------------ bounds
\* highest stream ID the callers of Spec use
MaxStreamID == 8
\* highest stream ID the callers of SpecAll use
MaxAllID == 3
\* highest stream ID the callers of SpecLock use
MaxLockID == 3
\* highest stream ID the callers of SpecIn and SpecGet use
MaxInStreamID == 7
\* highest stream ID the callers of SpecLive use
MaxLiveStreamID == 10
\* highest stream ID the callers of SpecRoute use
MaxRouteID == 5
\* highest stream ID the callers of SpecOut use
MaxOutStreamID == 8
\* number of goroutines calling into the manager in Spec and SpecOut
NumThreads == 2
\* number of goroutines calling into one incoming quadrant in SpecIn
NumQThreads == 3
\* number of quadrants the callers of one run work on
MaxActive == 1
\* most ranges of a frame handed to Write
MaxRanges == 3
\* most gap/length entries of a frame handed to ParseAckFrame
MaxEntries == 3
\* width of a packet number in bits (64 in the code)
PacketNumberBits == 24
\* the packet numbers the frames handed to Write are made of
PacketNumbers == {0, 1, 2, 3, 5, 7, 300, 400, 65000}

Max(a, b) == IF a > b THEN a ELSE b
StreamIDs == 0 .. MaxStreamID
InStreamIDs == 0 .. MaxInStreamID
LockStreamIDs == 0 .. MaxLockID
AllStreamIDs == 1 .. MaxAllID
LiveStreamIDs == 0 .. MaxLiveStreamID
RouteIDs == 0 .. MaxRouteID
OutStreamIDs == 0 .. MaxOutStreamID
Threads == 1 .. NumThreads
QThreads == 1 .. NumQThreads
AllThreads == 1 .. Max(NumThreads, NumQThreads)

\* --------------------------------------------------------------- constants
Perspectives == {"server", "client"}

streamTypeOutgoingBidi == "OutgoingBidi"
streamTypeIncomingBidi == "IncomingBidi"
streamTypeOutgoingUni == "OutgoingUni"
streamTypeIncomingUni == "IncomingUni"

Outgoing == {streamTypeOutgoingBidi, streamTypeOutgoingUni}
Incoming == {streamTypeIncomingBidi, streamTypeIncomingUni}
Quadrants == Outgoing \cup Incoming

\* errors: the nil error, the errors handed to CloseWithError, and the
\* errors the manager builds itself
Error(kind, msg, id) == [kind |-> kind, msg |-> msg, id |-> id]
NoErr == Error("nil", "", 0)
testErr == Error("close", "test error", 0)
otherErr == Error("close", "other error", 0)
CloseErrs == {NoErr, testErr, otherErr}

\* stream handles: the ID the factory was called with, and which call of
\* the factory for that ID produced the handle; Nil is the nil interface
Handle(id, gen) == [id |-> id, gen |-> gen]
Nil == Handle(-1, 0)

VARIABLES
  perspective,     \* streamsMap.perspective
  streams,         \* per quadrant: the streams map, ID -> handle
  nextStream,      \* per quadrant: nextStream
  highestStream,   \* per incoming quadrant: highestStream
  closeErr,        \* per quadrant: closeErr (NoErr is nil)
  waiters,         \* per incoming quadrant: goroutines parked in cond.Wait
  newStreamCalls,  \* per quadrant and ID: how often newStream(id) was called
  pc,              \* per goroutine: where it is inside a manager call
  arg,             \* per goroutine: the arguments of the call in progress
  ret,             \* the call that returned last: caller, operation, results
  accepted,        \* per incoming quadrant: IDs returned by AcceptStream, in order
  opened,          \* per outgoing quadrant: IDs returned by OpenStream, in order
  closedWith,      \* error of the first streamsMap.CloseWithError that completed
  mutex,           \* per incoming quadrant: who holds the RWMutex
  ackIn,           \* ACK codec: the frame handed to Write
  ackVersion,      \* ACK codec: the dialect
  ackOut           \* ACK codec: result of Write, then of ParseAckFrame

mapVars == <<perspective, streams, nextStream, highestStream, closeErr, waiters,
             newStreamCalls, pc, arg, ret, accepted, opened, closedWith, mutex>>
ackVars == <<ackIn, ackVersion, ackOut>>
vars == <<perspective, streams, nextStream, highestStream, closeErr, waiters,
          newStreamCalls, pc, arg, ret, accepted, opened, closedWith, mutex,
          ackIn, ackVersion, ackOut>>

\* ---------------------------------------------------------- streamsMap
\* firstStream that does not leave out stream 0: the bidirectional
\* quadrant of residue 0 starts at 0
firstStream_FromZero(p, q) ==
  IF p = "server"
    THEN CASE q = streamTypeOutgoingBidi -> 1
           [] q = streamTypeIncomingBidi -> 0
           [] q = streamTypeOutgoingUni -> 3
           [] OTHER -> 2
    ELSE CASE q = streamTypeOutgoingBidi -> 0
           [] q = streamTypeIncomingBidi -> 1
           [] q = streamTypeOutgoingUni -> 2
           [] OTHER -> 3

\* newStreamsMap: the first ID of each quadrant
firstStream(p, q) ==
  IF p = "server"
    THEN CASE q = streamTypeOutgoingBidi -> 1
           [] q = streamTypeIncomingBidi -> 4
           [] q = streamTypeOutgoingUni -> 3
           [] OTHER -> 2
    ELSE CASE q = streamTypeOutgoingBidi -> 4
           [] q = streamTypeIncomingBidi -> 1
           [] q = streamTypeOutgoingUni -> 2
           [] OTHER -> 3

\* getStreamType with the tables of the two perspectives exchanged
getStreamType_Mirrored(p, id) ==
  IF p = "client"
    THEN CASE id % 4 = 0 -> streamTypeIncomingBidi
           [] id % 4 = 1 -> streamTypeOutgoingBidi
           [] id % 4 = 2 -> streamTypeIncomingUni
           [] OTHER -> streamTypeOutgoingUni
    ELSE CASE id % 4 = 0 -> streamTypeOutgoingBidi
           [] id % 4 = 1 -> streamTypeIncomingBidi
           [] id % 4 = 2 -> streamTypeOutgoingUni
           [] OTHER -> streamTypeIncomingUni

getStreamType(p, id) ==
  IF p = "server"
    THEN CASE id % 4 = 0 -> streamTypeIncomingBidi
           [] id % 4 = 1 -> streamTypeOutgoingBidi
           [] id % 4 = 2 -> streamTypeIncomingUni
           [] OTHER -> streamTypeOutgoingUni
    ELSE CASE id % 4 = 0 -> streamTypeOutgoingBidi
           [] id % 4 = 1 -> streamTypeIncomingBidi
           [] id % 4 = 2 -> streamTypeOutgoingUni
           [] OTHER -> streamTypeIncomingUni

\* how often the factory of quadrant q has been called for id
Calls(q, id) == IF id \in DOMAIN newStreamCalls[q] THEN newStreamCalls[q][id] ELSE 0

\* m.streams[id] of a Go map: the handle, or nil when the key is absent
Lookup(q, id) == IF id \in DOMAIN streams[q] THEN streams[q][id] ELSE Nil

\* what a completed call leaves behind for its caller
Ret(op, q, id, str, err, after) ==
  [op |-> op, q |-> q, id |-> id, str |-> str, err |-> err, after |-> after]
NoRet == Ret("none", "none", 0, Nil, NoErr, NoErr)
\* the arguments of a call in progress
Arg(op, q, id, err) == [op |-> op, q |-> q, id |-> id, err |-> err]
NoArg == Arg("none", "none", 0, NoErr)

\* sync.RWMutex: w is the goroutine between Lock and Unlock (0: none), r the
\* goroutines between RLock and RUnlock
Unlocked == [w |-> 0, r |-> {}]

Init ==
  /\ perspective \in Perspectives
  /\ streams = [q \in Quadrants |-> <<>>]
  /\ nextStream = [q \in Quadrants |-> firstStream(perspective, q)]
  /\ highestStream = [q \in Incoming |-> 0]
  /\ closeErr = [q \in Quadrants |-> NoErr]
  /\ waiters = [q \in Incoming |-> {}]
  /\ newStreamCalls = [q \in Quadrants |-> <<>>]
  /\ pc = [t \in AllThreads |-> "idle"]
  /\ arg = [t \in AllThreads |-> NoArg]
  /\ ret = NoRet
  /\ accepted = [q \in Incoming |-> <<>>]
  /\ opened = [q \in Outgoing |-> <<>>]
  /\ closedWith = NoErr
  /\ mutex = [q \in Incoming |-> Unlocked]
  /\ ackIn = [LargestAcked |-> 0, LowestAcked |-> 0, AckRanges |-> <<>>,
              DelayTime |-> [mantissa |-> 0, shift |-> 0]]
  /\ ackVersion = "none"
  /\ ackOut = [stage |-> "none", err |-> "", bytes |-> <<>>,
               frame |-> [LargestAcked |-> 0, LowestAcked |-> 0, AckRanges |-> <<>>,
                          DelayTime |-> [mantissa |-> 0, shift |-> 0]]]


\* ------------------------------------------------ sync.Cond of a quadrant
\* Wakeable with a Signal that gets lost: nobody is woken
Wakeable_None(q, n) == {{}}

\* n calls of cond.Signal() made while the mutex is held: each wakes one
\* parked goroutine if there is one (which one is up to the runtime)
Wakeable(q, n) ==
  {W \in SUBSET waiters[q] :
     Cardinality(W) = (IF n < Cardinality(waiters[q]) THEN n ELSE Cardinality(waiters[q]))}

\* the goroutine t moves to newpc, the goroutines in W return from cond.Wait
PcAfter(t, newpc, W) ==
  [u \in AllThreads |-> IF u = t THEN newpc
                        ELSE IF u \in W THEN "AcceptStream_Woken" ELSE pc[u]]

\* the call of goroutine t returns r
Return(t, r) ==
  /\ arg' = [arg EXCEPT ![t] = NoArg]
  /\ ret' = r

\* -------------------------------------------- incoming quadrant (generic)
\* AcceptLoop with "m.nextStream++" in place of "m.nextStream += 4"
AcceptLoop_Increment(t, q, op) ==
  IF closeErr[q] # NoErr
    THEN /\ arg' = [arg EXCEPT ![t] = NoArg]
         /\ ret' = Ret(op, q, 0, Nil, closeErr[q], closedWith)
         /\ pc' = [pc EXCEPT ![t] = "idle"]
         /\ UNCHANGED <<streams, nextStream, highestStream, closeErr, waiters,
                        newStreamCalls, accepted>>
    ELSE IF nextStream[q] \in DOMAIN streams[q]
      THEN /\ arg' = [arg EXCEPT ![t] = NoArg]
           /\ ret' = Ret(op, q, 0, streams[q][nextStream[q]], NoErr, closedWith)
           /\ nextStream' = [nextStream EXCEPT ![q] = @ + 1]
           /\ accepted' = [accepted EXCEPT ![q] = Append(@, streams[q][nextStream[q]].id)]
           /\ pc' = [pc EXCEPT ![t] = "idle"]
           /\ UNCHANGED <<streams, highestStream, closeErr, waiters, newStreamCalls>>
      ELSE /\ waiters' = [waiters EXCEPT ![q] = @ \cup {t}]
           /\ pc' = [pc EXCEPT ![t] = "AcceptStream_Wait"]
           /\ arg' = [arg EXCEPT ![t] = Arg(op, q, 0, NoErr)]
           /\ UNCHANGED <<streams, nextStream, highestStream, closeErr,
                          newStreamCalls, accepted, ret>>

\* AcceptLoop that looks for the next stream before it looks at closeErr
AcceptLoop_StreamFirst(t, q, op) ==
  IF nextStream[q] \in DOMAIN streams[q]
    THEN /\ Return(t, Ret(op, q, 0, streams[q][nextStream[q]], NoErr, closedWith))
         /\ nextStream' = [nextStream EXCEPT ![q] = @ + 4]
         /\ accepted' = [accepted EXCEPT ![q] = Append(@, streams[q][nextStream[q]].id)]
         /\ pc' = [pc EXCEPT ![t] = "idle"]
         /\ UNCHANGED <<streams, highestStream, closeErr, waiters, newStreamCalls>>
    ELSE IF closeErr[q] # NoErr
      THEN /\ Return(t, Ret(op, q, 0, Nil, closeErr[q], closedWith))
           /\ pc' = [pc EXCEPT ![t] = "idle"]
           /\ UNCHANGED <<streams, nextStream, highestStream, closeErr, waiters,
                          newStreamCalls, accepted>>
      ELSE /\ waiters' = [waiters EXCEPT ![q] = @ \cup {t}]
           /\ pc' = [pc EXCEPT ![t] = "AcceptStream_Wait"]
           /\ arg' = [arg EXCEPT ![t] = Arg(op, q, 0, NoErr)]
           /\ UNCHANGED <<streams, nextStream, highestStream, closeErr,
                          newStreamCalls, accepted, ret>>

\* AcceptStream: one pass through the for loop with the mutex held; entered
\* after Lock() and again every time cond.Wait() returns
AcceptLoop(t, q, op) ==
  IF closeErr[q] # NoErr
    THEN /\ Return(t, Ret(op, q, 0, Nil, closeErr[q], closedWith))
         /\ pc' = [pc EXCEPT ![t] = "idle"]
         /\ UNCHANGED <<streams, nextStream, highestStream, closeErr, waiters,
                        newStreamCalls, accepted>>
    ELSE IF nextStream[q] \in DOMAIN streams[q]
      THEN /\ Return(t, Ret(op, q, 0, streams[q][nextStream[q]], NoErr, closedWith))
           /\ nextStream' = [nextStream EXCEPT ![q] = @ + 4]
           /\ accepted' = [accepted EXCEPT ![q] = Append(@, streams[q][nextStream[q]].id)]
           /\ pc' = [pc EXCEPT ![t] = "idle"]
           /\ UNCHANGED <<streams, highestStream, closeErr, waiters, newStreamCalls>>
      ELSE /\ waiters' = [waiters EXCEPT ![q] = @ \cup {t}]
           /\ pc' = [pc EXCEPT ![t] = "AcceptStream_Wait"]
           /\ arg' = [arg EXCEPT ![t] = Arg(op, q, 0, NoErr)]
           /\ UNCHANGED <<streams, nextStream, highestStream, closeErr,
                          newStreamCalls, accepted, ret>>

\* GetOrOpenStreamCheck of a quadrant that refuses lookups once it is closed
GetOrOpenStreamCheck_RefusesClosed(t, q, id, op) ==
  IF closeErr[q] # NoErr
    THEN /\ Return(t, Ret(op, q, id, Nil, closeErr[q], closedWith))
         /\ UNCHANGED <<streams, nextStream, highestStream, closeErr, waiters,
                        newStreamCalls, accepted, pc>>
    ELSE /\ pc' = [pc EXCEPT ![t] = IF id <= highestStream[q] THEN "GetOrOpenStream_RLock"
                                                             ELSE "GetOrOpenStream_Lock"]
         /\ arg' = [arg EXCEPT ![t] = Arg(op, q, id, NoErr)]
         /\ UNCHANGED <<streams, nextStream, highestStream, closeErr, waiters,
                        newStreamCalls, accepted, ret>>

\* GetOrOpenStream, the comparison made before any lock is taken: it picks
\* the read-locked lookup or the write-locked creation path.  The read of
\* highestStream races with the writes of other GetOrOpenStream calls: it
\* sees the value of the moment this step is taken, and since the step
\* touches nothing else, an older value the racing read could return is the
\* value it reads when the step is scheduled earlier.
GetOrOpenStreamCheck(t, q, id, op) ==
  /\ pc' = [pc EXCEPT ![t] = IF id <= highestStream[q] THEN "GetOrOpenStream_RLock"
                                                       ELSE "GetOrOpenStream_Lock"]
  /\ arg' = [arg EXCEPT ![t] = Arg(op, q, id, NoErr)]
  /\ UNCHANGED <<streams, nextStream, highestStream, closeErr, waiters,
                 newStreamCalls, accepted, ret>>

\* NewIDs of a creation loop that creates the requested ID only
NewIDs_OnlyRequested(q, id) ==
  LET start == IF highestStream[q] = 0 THEN nextStream[q] ELSE highestStream[q] + 4
  IN {newID \in start .. id : newID = id}

\* the IDs the creation loop of GetOrOpenStream visits
NewIDs(q, id) ==
  LET start == IF highestStream[q] = 0 THEN nextStream[q] ELSE highestStream[q] + 4
  IN {newID \in start .. id : (newID - start) % 4 = 0}

\* the map after the creation loop: every visited ID gets a fresh handle
StreamsAfterOpen(q, id) ==
  [k \in DOMAIN streams[q] \cup NewIDs(q, id) |->
     IF k \in NewIDs(q, id) THEN Handle(k, Calls(q, k) + 1) ELSE streams[q][k]]

\* GetOrOpenStream, id <= highestStream, between RLock and RUnlock
GetOrOpenStreamRead(t) ==
  /\ Return(t, Ret(arg[t].op, arg[t].q, arg[t].id, Lookup(arg[t].q, arg[t].id),
                   NoErr, closedWith))
  /\ pc' = [pc EXCEPT ![t] = "idle"]
  /\ UNCHANGED <<streams, nextStream, highestStream, closeErr, waiters,
                 newStreamCalls, accepted>>

\* GetOrOpenStream, id <= highestStream: RLock, read the map, RUnlock
GetOrOpenStreamRLock(t) ==
  /\ pc[t] = "GetOrOpenStream_RLock"
  /\ GetOrOpenStreamRead(t)

\* GetOrOpenStream, id > highestStream, between Lock and Unlock: create,
\* Signal per creation, set highestStream, read the map
GetOrOpenStreamCreate(t) ==
  /\ LET q == arg[t].q
         id == arg[t].id
         created == StreamsAfterOpen(q, id)
     IN /\ streams' = [streams EXCEPT ![q] = created]
        /\ newStreamCalls' = [newStreamCalls EXCEPT ![q] =
             [k \in DOMAIN @ \cup NewIDs(q, id) |->
                IF k \in NewIDs(q, id) THEN Calls(q, k) + 1 ELSE @[k]]]
        /\ highestStream' = [highestStream EXCEPT ![q] = id]
        /\ \E W \in Wakeable(q, Cardinality(NewIDs(q, id))) :
             /\ waiters' = [waiters EXCEPT ![q] = @ \ W]
             /\ pc' = PcAfter(t, "idle", W)
        /\ Return(t, Ret(arg[t].op, q, id,
                         IF id \in DOMAIN created THEN created[id] ELSE Nil,
                         NoErr, closedWith))
  /\ UNCHANGED <<nextStream, closeErr, accepted>>

\* GetOrOpenStream, id > highestStream: Lock, the creation path, Unlock
GetOrOpenStreamLock(t) ==
  /\ pc[t] = "GetOrOpenStream_Lock"
  /\ GetOrOpenStreamCreate(t)

\* incoming DeleteStream without the check that the stream is in the map
InDeleteStream_NoCheck(t, q, id) ==
  /\ streams' = [streams EXCEPT ![q] = [k \in DOMAIN @ \ {id} |-> @[k]]]
  /\ Return(t, Ret("DeleteStream", q, id, Nil, NoErr, closedWith))
  /\ UNCHANGED <<nextStream, highestStream, closeErr, waiters, newStreamCalls, accepted, pc>>

\* incoming DeleteStream
InDeleteStream(t, q, id) ==
  /\ IF id \notin DOMAIN streams[q]
       THEN /\ Return(t, Ret("DeleteStream", q, id, Nil,
                             Error("error", "Tried to delete unknown stream", id), closedWith))
            /\ UNCHANGED streams
       ELSE /\ streams' = [streams EXCEPT ![q] = [k \in DOMAIN @ \ {id} |-> @[k]]]
            /\ Return(t, Ret("DeleteStream", q, id, Nil, NoErr, closedWith))
  /\ UNCHANGED <<nextStream, highestStream, closeErr, waiters, newStreamCalls, accepted, pc>>

\* incoming CloseWithError, the part under the mutex
InCloseLocked(q, err) == closeErr' = [closeErr EXCEPT ![q] = err]

\* incoming CloseWithError, the Signal() after Unlock(); t continues at newpc
InCloseSignal(t, q, newpc) ==
  \E W \in Wakeable(q, 1) :
    /\ waiters' = [waiters EXCEPT ![q] = @ \ W]
    /\ pc' = PcAfter(t, newpc, W)

\* ----------------------------------------------------- outgoing quadrant
OutOpenStream(t, q, op) ==
  IF closeErr[q] # NoErr
    THEN /\ Return(t, Ret(op, q, 0, Nil, closeErr[q], closedWith))
         /\ UNCHANGED <<streams, nextStream, newStreamCalls, opened>>
    ELSE /\ streams' = [streams EXCEPT ![q] =
              [k \in DOMAIN @ \cup {nextStream[q]} |->
                 IF k = nextStream[q] THEN Handle(k, Calls(q, k) + 1) ELSE @[k]]]
         /\ newStreamCalls' = [newStreamCalls EXCEPT ![q] =
              [k \in DOMAIN @ \cup {nextStream[q]} |->
                 IF k = nextStream[q] THEN Calls(q, k) + 1 ELSE @[k]]]
         /\ nextStream' = [nextStream EXCEPT ![q] = @ + 4]
         /\ opened' = [opened EXCEPT ![q] = Append(@, nextStream[q])]
         /\ Return(t, Ret(op, q, 0, Handle(nextStream[q], Calls(q, nextStream[q]) + 1),
                          NoErr, closedWith))

OutGetStream(t, q, id, op) ==
  /\ IF id >= nextStream[q]
       THEN Return(t, Ret(op, q, id, Nil,
                          Error("InvalidStreamID", "peer attempted to open stream", id), closedWith))
       ELSE Return(t, Ret(op, q, id, Lookup(q, id), NoErr, closedWith))
  /\ UNCHANGED <<streams, nextStream, highestStream, closeErr, waiters,
                 newStreamCalls, accepted, opened, pc>>

OutDeleteStream(t, q, id) ==
  /\ IF id \notin DOMAIN streams[q]
       THEN /\ Return(t, Ret("DeleteStream", q, id, Nil,
                             Error("error", "Tried to delete unknown stream", id), closedWith))
            /\ UNCHANGED streams
       ELSE /\ streams' = [streams EXCEPT ![q] = [k \in DOMAIN @ \ {id} |-> @[k]]]
            /\ Return(t, Ret("DeleteStream", q, id, Nil, NoErr, closedWith))
  /\ UNCHANGED <<nextStream, highestStream, closeErr, waiters, newStreamCalls, accepted, pc>>

OutCloseWithError(q, err) ==
  closeErr' = [closeErr EXCEPT ![q] = IF @ = NoErr THEN err ELSE @]


\* -------------------------------------------------- streamsMap operations
\* Open hands out IDs up to max
CanOpen(q, max) == closeErr[q] # NoErr \/ nextStream[q] <= max

\* OpenStream delegating to the unidirectional quadrant
OpenStream_Uni(t) ==
  /\ pc[t] = "idle"
  /\ OutOpenStream(t, streamTypeOutgoingUni, "OpenStream")
  /\ UNCHANGED <<perspective, highestStream, closeErr, waiters, accepted, pc, closedWith>>
  /\ UNCHANGED <<mutex, ackVars>>

OpenStream(t) ==
  /\ pc[t] = "idle"
  /\ OutOpenStream(t, streamTypeOutgoingBidi, "OpenStream")
  /\ UNCHANGED <<perspective, highestStream, closeErr, waiters, accepted, pc, closedWith>>
  /\ UNCHANGED <<mutex, ackVars>>

OpenUniStream(t) ==
  /\ pc[t] = "idle"
  /\ OutOpenStream(t, streamTypeOutgoingUni, "OpenUniStream")
  /\ UNCHANGED <<perspective, highestStream, closeErr, waiters, accepted, pc, closedWith>>
  /\ UNCHANGED <<mutex, ackVars>>

AcceptStream(t) ==
  /\ pc[t] = "idle"
  /\ AcceptLoop(t, streamTypeIncomingBidi, "AcceptStream")
  /\ UNCHANGED <<perspective, opened, closedWith>>
  /\ UNCHANGED <<mutex, ackVars>>

AcceptUniStream(t) ==
  /\ pc[t] = "idle"
  /\ AcceptLoop(t, streamTypeIncomingUni, "AcceptUniStream")
  /\ UNCHANGED <<perspective, opened, closedWith>>
  /\ UNCHANGED <<mutex, ackVars>>

\* a goroutine woken by Signal re-acquires the mutex and loops
AcceptStreamWoken(t) ==
  /\ pc[t] = "AcceptStream_Woken"
  /\ AcceptLoop(t, arg[t].q, arg[t].op)
  /\ UNCHANGED <<perspective, opened, closedWith>>
  /\ UNCHANGED <<mutex, ackVars>>

DeleteStream(t, id) ==
  /\ pc[t] = "idle"
  /\ IF getStreamType(perspective, id) \in Incoming
       THEN InDeleteStream(t, getStreamType(perspective, id), id)
       ELSE OutDeleteStream(t, getStreamType(perspective, id), id)
  /\ UNCHANGED <<perspective, opened, closedWith>>
  /\ UNCHANGED <<mutex, ackVars>>

\* GetOrOpenReceiveStream without the case for outgoing unidirectional
\* streams: they are looked up like outgoing bidirectional ones
GetOrOpenReceiveStream_UniDelegates(t, id) ==
  /\ pc[t] = "idle"
  /\ LET q == getStreamType(perspective, id)
     IN CASE q \in Outgoing ->
               OutGetStream(t, q, id, "GetOrOpenReceiveStream")
          [] OTHER ->
               /\ GetOrOpenStreamCheck(t, q, id, "GetOrOpenReceiveStream")
               /\ UNCHANGED opened
  /\ UNCHANGED <<perspective, closedWith>>
  /\ UNCHANGED <<mutex, ackVars>>

GetOrOpenReceiveStream(t, id) ==
  /\ pc[t] = "idle"
  /\ LET q == getStreamType(perspective, id)
     IN CASE q = streamTypeOutgoingBidi ->
               OutGetStream(t, q, id, "GetOrOpenReceiveStream")
          [] q \in Incoming ->
               /\ GetOrOpenStreamCheck(t, q, id, "GetOrOpenReceiveStream")
               /\ UNCHANGED opened
          [] OTHER ->
               /\ Return(t, Ret("GetOrOpenReceiveStream", q, id, Nil,
                      Error("error", "peer attempted to open receive stream", id), closedWith))
               /\ UNCHANGED <<streams, nextStream, highestStream, closeErr, waiters,
                              newStreamCalls, accepted, opened, pc>>
  /\ UNCHANGED <<perspective, closedWith>>
  /\ UNCHANGED <<mutex, ackVars>>

\* GetOrOpenSendStream with the two unidirectional cases exchanged
GetOrOpenSendStream_SwappedUni(t, id) ==
  /\ pc[t] = "idle"
  /\ LET q == getStreamType(perspective, id)
     IN CASE q = streamTypeOutgoingBidi ->
               OutGetStream(t, q, id, "GetOrOpenSendStream")
          [] q \in Incoming ->
               /\ GetOrOpenStreamCheck(t, q, id, "GetOrOpenSendStream")
               /\ UNCHANGED opened
          [] OTHER ->
               /\ Return(t, Ret("GetOrOpenSendStream", q, id, Nil,
                      Error("error", "peer attempted to open send stream", id), closedWith))
               /\ UNCHANGED <<streams, nextStream, highestStream, closeErr, waiters,
                              newStreamCalls, accepted, opened, pc>>
  /\ UNCHANGED <<perspective, closedWith>>
  /\ UNCHANGED <<mutex, ackVars>>

\* GetOrOpenSendStream without the case for incoming unidirectional streams:
\* they are opened like incoming bidirectional ones
GetOrOpenSendStream_NoUniCheck(t, id) ==
  /\ pc[t] = "idle"
  /\ LET q == getStreamType(perspective, id)
     IN CASE q \in Outgoing ->
               OutGetStream(t, q, id, "GetOrOpenSendStream")
          [] OTHER ->
               /\ GetOrOpenStreamCheck(t, q, id, "GetOrOpenSendStream")
               /\ UNCHANGED opened
  /\ UNCHANGED <<perspective, closedWith>>
  /\ UNCHANGED <<mutex, ackVars>>

GetOrOpenSendStream(t, id) ==
  /\ pc[t] = "idle"
  /\ LET q == getStreamType(perspective, id)
     IN CASE q = streamTypeOutgoingBidi ->
               OutGetStream(t, q, id, "GetOrOpenSendStream")
          [] q = streamTypeIncomingBidi ->
               /\ GetOrOpenStreamCheck(t, q, id, "GetOrOpenSendStream")
               /\ UNCHANGED opened
          [] q = streamTypeOutgoingUni ->
               OutGetStream(t, q, id, "GetOrOpenSendStream")
          [] OTHER ->
               /\ Return(t, Ret("GetOrOpenSendStream", q, id, Nil,
                      Error("error", "peer attempted to open send stream", id), closedWith))
               /\ UNCHANGED <<streams, nextStream, highestStream, closeErr, waiters,
                              newStreamCalls, accepted, opened, pc>>
  /\ UNCHANGED <<perspective, closedWith>>
  /\ UNCHANGED <<mutex, ackVars>>

\* the two continuations of an incoming GetOrOpenStream
GetOrOpenStreamFast(t) ==
  /\ GetOrOpenStreamRLock(t)
  /\ UNCHANGED <<perspective, opened, closedWith>>
  /\ UNCHANGED <<mutex, ackVars>>

GetOrOpenStreamSlow(t) ==
  /\ GetOrOpenStreamLock(t)
  /\ UNCHANGED <<perspective, opened, closedWith>>
  /\ UNCHANGED <<mutex, ackVars>>

\* streamsMap.CloseWithError closes the quadrants one after the other
CloseWithError(t, err) ==
  /\ pc[t] = "idle"
  /\ OutCloseWithError(streamTypeOutgoingBidi, err)
  /\ pc' = [pc EXCEPT ![t] = "Close_OutgoingUni"]
  /\ arg' = [arg EXCEPT ![t] = Arg("CloseWithError", "none", 0, err)]
  /\ UNCHANGED <<perspective, streams, nextStream, highestStream, waiters,
                 newStreamCalls, ret, accepted, opened, closedWith>>
  /\ UNCHANGED <<mutex, ackVars>>

CloseOutgoingUni(t) ==
  /\ pc[t] = "Close_OutgoingUni"
  /\ OutCloseWithError(streamTypeOutgoingUni, arg[t].err)
  /\ pc' = [pc EXCEPT ![t] = "Close_IncomingBidi"]
  /\ UNCHANGED <<perspective, streams, nextStream, highestStream, waiters,
                 newStreamCalls, arg, ret, accepted, opened, closedWith>>
  /\ UNCHANGED <<mutex, ackVars>>

CloseIncomingBidi(t) ==
  /\ pc[t] = "Close_IncomingBidi"
  /\ InCloseLocked(streamTypeIncomingBidi, arg[t].err)
  /\ pc' = [pc EXCEPT ![t] = "Close_IncomingBidi_Signal"]
  /\ UNCHANGED <<perspective, streams, nextStream, highestStream, waiters,
                 newStreamCalls, arg, ret, accepted, opened, closedWith>>
  /\ UNCHANGED <<mutex, ackVars>>

CloseIncomingBidiSignal(t) ==
  /\ pc[t] = "Close_IncomingBidi_Signal"
  /\ InCloseSignal(t, streamTypeIncomingBidi, "Close_IncomingUni")
  /\ UNCHANGED <<perspective, streams, nextStream, highestStream, closeErr,
                 newStreamCalls, arg, ret, accepted, opened, closedWith>>
  /\ UNCHANGED <<mutex, ackVars>>

CloseIncomingUni(t) ==
  /\ pc[t] = "Close_IncomingUni"
  /\ InCloseLocked(streamTypeIncomingUni, arg[t].err)
  /\ pc' = [pc EXCEPT ![t] = "Close_IncomingUni_Signal"]
  /\ UNCHANGED <<perspective, streams, nextStream, highestStream, waiters,
                 newStreamCalls, arg, ret, accepted, opened, closedWith>>
  /\ UNCHANGED <<mutex, ackVars>>

CloseIncomingUniSignal(t) ==
  /\ pc[t] = "Close_IncomingUni_Signal"
  /\ InCloseSignal(t, streamTypeIncomingUni, "idle")
  /\ Return(t, Ret("CloseWithError", "none", 0, Nil, arg[t].err, closedWith))
  /\ closedWith' = IF closedWith = NoErr THEN arg[t].err ELSE closedWith
  /\ UNCHANGED <<perspective, streams, nextStream, highestStream, closeErr,
                 newStreamCalls, accepted, opened>>
  /\ UNCHANGED <<mutex, ackVars>>

\* incomingItemsMap.CloseWithError called on its own (not through the manager)
InCloseWithError(t, q, err) ==
  /\ pc[t] = "idle"
  /\ InCloseLocked(q, err)
  /\ pc' = [pc EXCEPT ![t] = "CloseWithError_Signal"]
  /\ arg' = [arg EXCEPT ![t] = Arg("CloseWithError", q, 0, err)]
  /\ UNCHANGED <<perspective, streams, nextStream, highestStream, waiters,
                 newStreamCalls, ret, accepted, opened, closedWith>>
  /\ UNCHANGED <<mutex, ackVars>>

InCloseWithErrorSignal(t) ==
  /\ pc[t] = "CloseWithError_Signal"
  /\ InCloseSignal(t, arg[t].q, "idle")
  /\ Return(t, Ret("CloseWithError", arg[t].q, 0, Nil, arg[t].err, closedWith))
  /\ UNCHANGED <<perspective, streams, nextStream, highestStream, closeErr,
                 newStreamCalls, accepted, opened, closedWith>>
  /\ UNCHANGED <<mutex, ackVars>>

\* ------------------------------------------------------- specifications
\* a quadrant nobody has worked on yet (closeErr aside)
Pristine(q) ==
  /\ streams[q] = <<>>
  /\ nextStream[q] = firstStream(perspective, q)
  /\ q \in Incoming => highestStream[q] = 0 /\ waiters[q] = {}
  /\ \A t \in AllThreads : arg[t].q # q

\* q is the only quadrant anybody has worked on
Alone(q) == \A o \in Quadrants \ {q} : Pristine(o)

\* the callers work on at most MaxActive quadrants
Active(q) == Cardinality({o \in Quadrants : ~Pristine(o)} \cup {q}) <= MaxActive

\* the stream IDs among ids that belong to quadrant q
IDsOf(q, ids) == {id \in ids : getStreamType(perspective, id) = q}

\* streamsMap.CloseWithError is called by one goroutine at a time
NoCloseInProgress == \A t \in AllThreads : arg[t].op # "CloseWithError"

\* the goroutine that handles the peer's frames, and the application's
Session == {1}
Apps == Threads \ Session

\* Spec: the streams manager as the session uses it.  The session goroutine
\* calls GetOrOpen*, DeleteStream and CloseWithError, the application's
\* goroutines call Open* and Accept*.
Next ==
  \/ \E q \in Quadrants :
       /\ Active(q)
       /\ \/ \E t \in Apps :
               \/ q = streamTypeOutgoingBidi /\ CanOpen(q, MaxStreamID) /\ OpenStream(t)
               \/ q = streamTypeOutgoingUni /\ CanOpen(q, MaxStreamID) /\ OpenUniStream(t)
               \/ q = streamTypeIncomingBidi /\ AcceptStream(t)
               \/ q = streamTypeIncomingUni /\ AcceptUniStream(t)
          \/ \E t \in Session :
               \/ \E id \in IDsOf(q, StreamIDs) : DeleteStream(t, id)
               \/ \E id \in IDsOf(q, StreamIDs) : GetOrOpenReceiveStream(t, id)
               \/ \E id \in IDsOf(q, StreamIDs) : GetOrOpenSendStream(t, id)
  \/ \E t \in Threads :
       \/ AcceptStreamWoken(t)
       \/ GetOrOpenStreamFast(t)
       \/ GetOrOpenStreamSlow(t)
       \/ \E err \in CloseErrs : t \in Session /\ CloseWithError(t, err)
       \/ CloseOutgoingUni(t)
       \/ CloseIncomingBidi(t)
       \/ CloseIncomingBidiSignal(t)
       \/ CloseIncomingUni(t)
       \/ CloseIncomingUniSignal(t)

Spec == Init /\ [][Next]_vars

\* one incoming quadrant (one incomingItemsMap), called concurrently: the
\* goroutines in acc call AcceptStream, those in hnd GetOrOpenStream,
\* DeleteStream and CloseWithError
NextQuadrant(acc, hnd) ==
  \/ \E q \in Incoming :
       /\ Alone(q)
       /\ \/ \E t \in acc :
               \/ q = streamTypeIncomingBidi /\ AcceptStream(t)
               \/ q = streamTypeIncomingUni /\ AcceptUniStream(t)
          \/ \E t \in hnd :
               \/ \E id \in IDsOf(q, InStreamIDs) : GetOrOpenReceiveStream(t, id)
               \/ \E id \in IDsOf(q, InStreamIDs) : DeleteStream(t, id)
               \/ \E err \in CloseErrs : InCloseWithError(t, q, err)
  \/ \E t \in QThreads :
       \/ AcceptStreamWoken(t)
       \/ GetOrOpenStreamFast(t)
       \/ GetOrOpenStreamSlow(t)
       \/ InCloseWithErrorSignal(t)

\* SpecIn: all goroutines but one accept, the last one handles frames
NextIn == NextQuadrant(QThreads \ {NumQThreads}, {NumQThreads})
SpecIn == Init /\ [][NextIn]_vars

\* SpecGet: one open incoming quadrant whose frame handlers run
\* concurrently: all goroutines but one call GetOrOpenStream and DeleteStream
NextGet ==
  \/ \E q \in Incoming :
       /\ Alone(q)
       /\ \E t \in QThreads \ {NumQThreads} :
            \/ \E id \in IDsOf(q, InStreamIDs) : GetOrOpenReceiveStream(t, id)
            \/ \E id \in IDsOf(q, InStreamIDs) : DeleteStream(t, id)
  \/ \E t \in QThreads :
       \/ GetOrOpenStreamFast(t)
       \/ GetOrOpenStreamSlow(t)

SpecGet == Init /\ [][NextGet]_vars

\* SpecRace: one goroutine accepts while two goroutines handle frames of the
\* same incoming quadrant concurrently
MaxRaceID == 5
NextRace ==
  \/ \E q \in Incoming :
       /\ Alone(q)
       /\ \/ \E t \in {1} :
               \/ q = streamTypeIncomingBidi /\ AcceptStream(t)
               \/ q = streamTypeIncomingUni /\ AcceptUniStream(t)
          \/ \E t \in {NumQThreads - 1, NumQThreads} :
               \/ \E id \in IDsOf(q, 1 .. MaxRaceID) : GetOrOpenReceiveStream(t, id)
               \/ \E id \in IDsOf(q, 1 .. MaxRaceID) : DeleteStream(t, id)
          \/ InCloseWithError(NumQThreads, q, testErr)
  \/ \E t \in QThreads :
       \/ AcceptStreamWoken(t)
       \/ GetOrOpenStreamFast(t)
       \/ GetOrOpenStreamSlow(t)
       \/ InCloseWithErrorSignal(t)

SpecRace == Init /\ [][NextRace]_vars

\* SpecLive: one open incoming quadrant in which nothing is deleted: all
\* goroutines but one accept, the last one calls GetOrOpenStream.  A goroutine
\* that can run does run: one that was signalled re-acquires the mutex, one
\* that is inside GetOrOpenStream gets its lock.
NextLive ==
  \/ \E q \in Incoming :
       /\ Alone(q)
       /\ \/ \E t \in QThreads \ {NumQThreads} :
               \/ q = streamTypeIncomingBidi /\ AcceptStream(t)
               \/ q = streamTypeIncomingUni /\ AcceptUniStream(t)
          \/ \E id \in IDsOf(q, LiveStreamIDs) : GetOrOpenReceiveStream(NumQThreads, id)
  \/ \E t \in QThreads :
       \/ AcceptStreamWoken(t)
       \/ GetOrOpenStreamFast(t)
       \/ GetOrOpenStreamSlow(t)

SpecLive ==
  /\ Init
  /\ [][NextLive]_vars
  /\ \A t \in QThreads :
       /\ WF_vars(AcceptStreamWoken(t))
       /\ WF_vars(GetOrOpenStreamFast(t))
       /\ WF_vars(GetOrOpenStreamSlow(t))

\* ------------------------------------------- the quadrant's mutex, unfolded
\* SpecLock: one incoming quadrant with every Lock, RLock, Unlock, RUnlock
\* and cond.Wait of the source as a step of its own.  A call first arrives
\* at its Lock (or RLock), then acquires it, then runs the statements up to
\* the Unlock (or to cond.Wait, which unlocks).

\* where a goroutine that is about to call m.mutex.Lock() stands
LockPcs == {"AcceptStream_Lock", "AcceptStream_Woken", "GetOrOpenStream_Lock",
            "DeleteStream_Lock", "CloseWithError_Lock"}

\* where it stands once Lock() has returned
Locked(p) ==
  CASE p \in {"AcceptStream_Lock", "AcceptStream_Woken"} -> "AcceptStream_Locked"
    [] p = "GetOrOpenStream_Lock" -> "GetOrOpenStream_Locked"
    [] p = "DeleteStream_Lock" -> "DeleteStream_Locked"
    [] OTHER -> "CloseWithError_Locked"

\* CanLock of a mutex that excludes nobody
CanLock_Always(q) == TRUE

\* sync.RWMutex: Lock() returns when nobody holds the mutex
CanLock(q) == mutex[q].w = 0 /\ mutex[q].r = {}

\* sync.RWMutex: RLock() returns when no writer holds the mutex
CanRLock(q) == mutex[q].w = 0

\* goroutine t holds the write lock / the read lock of quadrant q
HoldsLock(t, q) == mutex[q].w = t
HoldsRLock(t, q) == t \in mutex[q].r

\* a call arrives at m.mutex.Lock()
AcceptStreamCall(t, q) ==
  /\ pc[t] = "idle"
  /\ pc' = [pc EXCEPT ![t] = "AcceptStream_Lock"]
  /\ arg' = [arg EXCEPT ![t] =
       Arg(IF q = streamTypeIncomingBidi THEN "AcceptStream" ELSE "AcceptUniStream",
           q, 0, NoErr)]
  /\ UNCHANGED <<perspective, streams, nextStream, highestStream, closeErr, waiters,
                 newStreamCalls, ret, accepted, opened, closedWith, mutex>>
  /\ UNCHANGED ackVars

DeleteStreamCall(t, q, id) ==
  /\ pc[t] = "idle"
  /\ pc' = [pc EXCEPT ![t] = "DeleteStream_Lock"]
  /\ arg' = [arg EXCEPT ![t] = Arg("DeleteStream", q, id, NoErr)]
  /\ UNCHANGED <<perspective, streams, nextStream, highestStream, closeErr, waiters,
                 newStreamCalls, ret, accepted, opened, closedWith, mutex>>
  /\ UNCHANGED ackVars

CloseWithErrorCall(t, q, err) ==
  /\ pc[t] = "idle"
  /\ pc' = [pc EXCEPT ![t] = "CloseWithError_Lock"]
  /\ arg' = [arg EXCEPT ![t] = Arg("CloseWithError", q, 0, err)]
  /\ UNCHANGED <<perspective, streams, nextStream, highestStream, closeErr, waiters,
                 newStreamCalls, ret, accepted, opened, closedWith, mutex>>
  /\ UNCHANGED ackVars

\* m.mutex.Lock() returns; a goroutine woken inside cond.Wait() re-acquires
\* the mutex the same way
MutexLock(t) ==
  /\ pc[t] \in LockPcs
  /\ CanLock(arg[t].q)
  /\ mutex' = [mutex EXCEPT ![arg[t].q].w = t]
  /\ pc' = [pc EXCEPT ![t] = Locked(pc[t])]
  /\ UNCHANGED <<perspective, streams, nextStream, highestStream, closeErr, waiters,
                 newStreamCalls, arg, ret, accepted, opened, closedWith>>
  /\ UNCHANGED ackVars

\* m.mutex.RLock() returns
MutexRLock(t) ==
  /\ pc[t] = "GetOrOpenStream_RLock"
  /\ CanRLock(arg[t].q)
  /\ mutex' = [mutex EXCEPT ![arg[t].q].r = @ \cup {t}]
  /\ pc' = [pc EXCEPT ![t] = "GetOrOpenStream_RLocked"]
  /\ UNCHANGED <<perspective, streams, nextStream, highestStream, closeErr, waiters,
                 newStreamCalls, arg, ret, accepted, opened, closedWith>>
  /\ UNCHANGED ackVars

\* MutexUnlock of a cond.Wait() that parks without unlocking
MutexUnlock_NotInWait(t, q) ==
  [mutex EXCEPT ![q].w =
     IF /\ pc[t] = "AcceptStream_Locked"
        /\ closeErr[q] = NoErr
        /\ nextStream[q] \notin DOMAIN streams[q]
       THEN t ELSE 0]

\* the mutex after m.mutex.Unlock(), and after cond.Wait() has parked t
MutexUnlock(t, q) == [mutex EXCEPT ![q].w = 0]

\* AcceptStream with the mutex held: one pass through the loop, up to the
\* deferred Unlock() or to cond.Wait()
AcceptStreamLocked(t) ==
  /\ pc[t] = "AcceptStream_Locked"
  /\ AcceptLoop(t, arg[t].q, arg[t].op)
  /\ mutex' = MutexUnlock(t, arg[t].q)
  /\ UNCHANGED <<perspective, opened, closedWith>>
  /\ UNCHANGED ackVars

\* GetOrOpenStream between RLock() and RUnlock()
GetOrOpenStreamRLocked(t) ==
  /\ pc[t] = "GetOrOpenStream_RLocked"
  /\ GetOrOpenStreamRead(t)
  /\ mutex' = [mutex EXCEPT ![arg[t].q].r = @ \ {t}]
  /\ UNCHANGED <<perspective, opened, closedWith>>
  /\ UNCHANGED ackVars

\* GetOrOpenStream between Lock() and Unlock()
GetOrOpenStreamLocked(t) ==
  /\ pc[t] = "GetOrOpenStream_Locked"
  /\ GetOrOpenStreamCreate(t)
  /\ mutex' = MutexUnlock(t, arg[t].q)
  /\ UNCHANGED <<perspective, opened, closedWith>>
  /\ UNCHANGED ackVars

\* DeleteStream between Lock() and the deferred Unlock()
DeleteStreamLocked(t) ==
  /\ pc[t] = "DeleteStream_Locked"
  /\ LET q == arg[t].q
         id == arg[t].id
     IN /\ IF id \notin DOMAIN streams[q]
             THEN /\ Return(t, Ret("DeleteStream", q, id, Nil,
                          Error("error", "Tried to delete unknown stream", id), closedWith))
                  /\ UNCHANGED streams
             ELSE /\ streams' = [streams EXCEPT ![q] = [k \in DOMAIN @ \ {id} |-> @[k]]]
                  /\ Return(t, Ret("DeleteStream", q, id, Nil, NoErr, closedWith))
        /\ mutex' = MutexUnlock(t, q)
  /\ pc' = [pc EXCEPT ![t] = "idle"]
  /\ UNCHANGED <<perspective, nextStream, highestStream, closeErr, waiters,
                 newStreamCalls, accepted, opened, closedWith>>
  /\ UNCHANGED ackVars

\* CloseWithError between Lock() and Unlock()
CloseWithErrorLocked(t) ==
  /\ pc[t] = "CloseWithError_Locked"
  /\ InCloseLocked(arg[t].q, arg[t].err)
  /\ mutex' = MutexUnlock(t, arg[t].q)
  /\ pc' = [pc EXCEPT ![t] = "CloseWithError_Signal"]
  /\ UNCHANGED <<perspective, streams, nextStream, highestStream, waiters,
                 newStreamCalls, arg, ret, accepted, opened, closedWith>>
  /\ UNCHANGED ackVars

\* all goroutines but one accept, the last one handles frames
NextLock ==
  \/ \E q \in Incoming :
       /\ Alone(q)
       /\ \/ \E t \in QThreads \ {NumQThreads} : AcceptStreamCall(t, q)
          \/ \E id \in IDsOf(q, LockStreamIDs) : GetOrOpenReceiveStream(NumQThreads, id)
          \/ \E id \in IDsOf(q, LockStreamIDs) : DeleteStreamCall(NumQThreads, q, id)
          \/ \E err \in CloseErrs \ {otherErr} : CloseWithErrorCall(NumQThreads, q, err)
  \/ \E t \in QThreads :
       \/ MutexLock(t)
       \/ MutexRLock(t)
       \/ AcceptStreamLocked(t)
       \/ GetOrOpenStreamRLocked(t)
       \/ GetOrOpenStreamLocked(t)
       \/ DeleteStreamLocked(t)
       \/ CloseWithErrorLocked(t)
       \/ InCloseWithErrorSignal(t)

SpecLock == Init /\ [][NextLock]_vars

\* SpecOut: the two outgoing quadrants: every goroutine opens streams, the
\* session goroutine handles the peer's references to them and closes
NextOut ==
  \/ \E t \in Threads :
       \/ CanOpen(streamTypeOutgoingBidi, MaxOutStreamID) /\ OpenStream(t)
       \/ CanOpen(streamTypeOutgoingUni, MaxOutStreamID) /\ OpenUniStream(t)
  \/ \E t \in Session :
       \/ \E id \in OutStreamIDs :
            /\ getStreamType(perspective, id) \in Outgoing
            /\ \/ DeleteStream(t, id)
               \/ GetOrOpenReceiveStream(t, id)
               \/ GetOrOpenSendStream(t, id)
       \/ \E err \in CloseErrs : CloseWithError(t, err)
       \/ CloseOutgoingUni(t)
       \/ CloseIncomingBidi(t)
       \/ CloseIncomingBidiSignal(t)
       \/ CloseIncomingUni(t)
       \/ CloseIncomingUniSignal(t)

SpecOut == Init /\ [][NextOut]_vars

\* SpecRoute: the session goroutine alone, working on all four quadrants:
\* it opens streams, handles the peer's references to stream IDs of every
\* kind and deletes streams
NextRoute ==
  \E t \in Session :
    \/ CanOpen(streamTypeOutgoingBidi, MaxRouteID) /\ OpenStream(t)
    \/ CanOpen(streamTypeOutgoingUni, MaxRouteID) /\ OpenUniStream(t)
    \/ \E id \in RouteIDs : DeleteStream(t, id)
    \/ \E id \in RouteIDs : GetOrOpenReceiveStream(t, id)
    \/ \E id \in RouteIDs : GetOrOpenSendStream(t, id)
    \/ GetOrOpenStreamFast(t)
    \/ GetOrOpenStreamSlow(t)

SpecRoute == Init /\ [][NextRoute]_vars


\* SpecAll: the four quadrants side by side, nothing restricted to one of
\* them: one goroutine of the application opens and accepts, the session
\* goroutine handles the peer's references to stream IDs, deletes and closes
NextAll ==
  \/ \E t \in {NumThreads} :
       \/ CanOpen(streamTypeOutgoingBidi, MaxAllID) /\ OpenStream(t)
       \/ CanOpen(streamTypeOutgoingUni, MaxAllID) /\ OpenUniStream(t)
       \/ AcceptStream(t)
       \/ AcceptUniStream(t)
  \/ \E t \in Session :
       \/ \E id \in AllStreamIDs : DeleteStream(t, id)
       \/ \E id \in AllStreamIDs : GetOrOpenReceiveStream(t, id)
       \/ \E id \in AllStreamIDs : GetOrOpenSendStream(t, id)
       \/ CloseWithError(t, testErr)
  \/ \E t \in Session \cup {NumThreads} :
       \/ AcceptStreamWoken(t)
       \/ GetOrOpenStreamFast(t)
       \/ GetOrOpenStreamSlow(t)
       \/ CloseOutgoingUni(t)
       \/ CloseIncomingBidi(t)
       \/ CloseIncomingBidiSignal(t)
       \/ CloseIncomingUni(t)
       \/ CloseIncomingUniSignal(t)

SpecAll == Init /\ [][NextAll]_vars


\* ------------------------------------------------------ ACK frame codec
\* bit operations on the type byte
RECURSIVE BitAnd(_, _)
BitAnd(a, b) ==
  IF a = 0 \/ b = 0 THEN 0
  ELSE (a % 2) * (b % 2) + 2 * BitAnd(a \div 2, b \div 2)

RECURSIVE BitXor(_, _)
BitXor(a, b) ==
  IF a = 0 THEN b
  ELSE IF b = 0 THEN a
  ELSE (((a % 2) + (b % 2)) % 2) + 2 * BitXor(a \div 2, b \div 2)

\* protocol.PacketNumber is an unsigned integer: arithmetic wraps around
PNMod == 2 ^ PacketNumberBits
Wrap(x) == x % PNMod

\* the two dialects
Versions == {"legacy", "ietf"}
UsesIETFAckFrame(version) == version = "ietf"

\* utils.GetByteOrder(version): big endian for the legacy dialect, little
\* endian for the IETF dialect
GetByteOrder(version) == IF UsesIETFAckFrame(version) THEN "little" ELSE "big"

\* the n bytes of x, most significant first
RECURSIVE BigEndian(_, _)
BigEndian(x, n) ==
  IF n = 0 THEN <<>> ELSE Append(BigEndian(x \div 256, n - 1), (x % 256))

RECURSIVE Reverse(_)
Reverse(s) == IF s = <<>> THEN <<>> ELSE Append(Reverse(Tail(s)), Head(s))

\* WriteUint16 / WriteUint32 / WriteUint48 / WriteUint64 (and WriteByte for
\* n = 1) of the value converted to an n byte unsigned integer: the low n
\* bytes of x
WriteUintN(x, n, order) ==
  IF order = "big" THEN BigEndian(x, n) ELSE Reverse(BigEndian(x, n))

\* the value of the bytes s, most significant first
RECURSIVE FromBigEndian(_)
FromBigEndian(s) ==
  IF s = <<>> THEN 0 ELSE 256 * FromBigEndian(SubSeq(s, 1, Len(s) - 1)) + s[Len(s)]

\* ReadUintN: the n bytes of b from position pos on
ReadUintN(b, pos, n, order) ==
  LET s == SubSeq(b, pos, pos + n - 1)
  IN IF order = "big" THEN FromBigEndian(s) ELSE FromBigEndian(Reverse(s))

\* WriteUfloat16: 11 bits of mantissa, 5 bits of exponent; values below 2^12
\* are their own code, larger ones lose their low bits
RECURSIVE Ufloat16Code(_, _)
Ufloat16Code(value, exponent) ==
  IF value < 4096 THEN value + 2048 * exponent
  ELSE Ufloat16Code(value \div 2, exponent + 1)

WriteUfloat16(value, order) == WriteUintN(Ufloat16Code(value, 0), 2, order)

\* ReadUfloat16: the value a code stands for, as mantissa * 2^shift
ReadUfloat16(b, pos, order) ==
  LET code == ReadUintN(b, pos, 2, order)
  IN IF code < 4096 THEN [mantissa |-> code, shift |-> 0]
     ELSE [mantissa |-> 2048 + (code % 2048), shift |-> (code \div 2048) - 1]

\* protocol.GetPacketNumberLength: the smallest length that encodes n
GetPacketNumberLength(n) ==
  IF n < 256 THEN 1 ELSE IF n < 65536 THEN 2 ELSE 4

\* frames and ranges
AckRange(first, last) == [First |-> first, Last |-> last]
AckFrame(largest, lowest, ranges, delay) ==
  [LargestAcked |-> largest, LowestAcked |-> lowest, AckRanges |-> ranges,
   DelayTime |-> delay]
NoFrame == AckFrame(0, 0, <<>>, [mantissa |-> 0, shift |-> 0])

HasMissingRanges(f) == Len(f.AckRanges) > 0

validateAckRanges(f) ==
  IF Len(f.AckRanges) = 0 THEN TRUE
  ELSE IF Len(f.AckRanges) = 1 THEN FALSE
  ELSE IF f.AckRanges[1].Last # f.LargestAcked THEN FALSE
  ELSE IF \E i \in 1 .. Len(f.AckRanges) : f.AckRanges[i].First > f.AckRanges[i].Last
    THEN FALSE
  ELSE \A i \in 2 .. Len(f.AckRanges) :
         /\ ~(f.AckRanges[i - 1].First <= f.AckRanges[i].First)
         /\ ~(f.AckRanges[i - 1].First <= Wrap(f.AckRanges[i].Last + 1))

\* the number of gap/length entries the range i needs
NackEntries(f, i) ==
  LET gap == Wrap(f.AckRanges[i - 1].First - f.AckRanges[i].Last - 1)
  IN (1 + (gap \div 255)) - (IF gap % 255 = 0 THEN 1 ELSE 0)

RECURSIVE NackRangesFrom(_, _, _)
NackRangesFrom(f, i, numRanges) ==
  IF i > Len(f.AckRanges) THEN numRanges
  ELSE IF numRanges + NackEntries(f, i) < 255
    THEN NackRangesFrom(f, i + 1, numRanges + NackEntries(f, i))
    ELSE numRanges

numWritableNackRanges(f) ==
  IF Len(f.AckRanges) = 0 THEN 0 ELSE NackRangesFrom(f, 2, 0) + 1

RECURSIVE MaxRangeLength(_, _)
MaxRangeLength(f, i) ==
  IF i > Len(f.AckRanges) THEN 0
  ELSE LET rangeLength == Wrap(f.AckRanges[i].Last - f.AckRanges[i].First + 1)
           rest == MaxRangeLength(f, i + 1)
       IN IF rangeLength > rest THEN rangeLength ELSE rest

getMissingSequenceNumberDeltaLen(f, version) ==
  LET maxRangeLength == IF HasMissingRanges(f) THEN MaxRangeLength(f, 1)
                        ELSE Wrap(f.LargestAcked - f.LowestAcked + 1)
  IN IF maxRangeLength <= 255 THEN 1
     ELSE IF maxRangeLength <= 65535 THEN 2
     ELSE 4

\* results of Write and ParseAckFrame
WriteResult(err, bytes) == [err |-> err, bytes |-> bytes]
ParseResult(err, frame) == [err |-> err, frame |-> frame]

\* the code of a length in the IETF type byte; lengths without a case in
\* the switch leave the type byte alone
IETFLenCode(len) ==
  CASE len = 2 -> 1 [] len = 4 -> 2 [] len = 8 -> 3 [] OTHER -> 0

\* Write: the type byte
AckTypeByte(f, version) ==
  LET ietf == UsesIETFAckFrame(version)
      largestAckedLen == GetPacketNumberLength(f.LargestAcked)
      missingSequenceNumberDeltaLen == getMissingSequenceNumberDeltaLen(f, version)
      t0 == IF ietf THEN 160 ELSE 64
      t1 == IF largestAckedLen # 1
              THEN BitXor(t0, 4 * (IF ietf THEN IETFLenCode(largestAckedLen)
                                           ELSE largestAckedLen \div 2))
              ELSE t0
      t2 == IF missingSequenceNumberDeltaLen # 1
              THEN BitXor(t1, IF ietf THEN IETFLenCode(missingSequenceNumberDeltaLen)
                                      ELSE missingSequenceNumberDeltaLen \div 2)
              ELSE t1
  IN IF HasMissingRanges(f) THEN BitXor(t2, IF ietf THEN 16 ELSE 32) ELSE t2

\* Placeholders of a writer that leaves the placeholder entries out
Placeholders_None(n, len, order) == <<>>

\* n placeholder entries (gap 0xFF, length 0): each is the byte 0xFF
\* followed by the len bytes of the length 0
Placeholders(n, len, order) ==
  [k \in 1 .. n * (1 + len) |->
     IF (k - 1) % (1 + len) = 0 THEN 255
     ELSE WriteUintN(0, len, order)[(k - 1) % (1 + len)]]

\* Write: the loop over the ranges after the first; it stops when
\* numRanges entries are written
RECURSIVE WriteAckRanges(_, _, _, _, _, _)
WriteAckRanges(f, order, len, i, numRangesWritten, numRanges) ==
  IF i > Len(f.AckRanges) THEN [bytes |-> <<>>, written |-> numRangesWritten]
  ELSE LET ackRange == f.AckRanges[i]
           length == Wrap(ackRange.Last - ackRange.First + 1)
           gap == Wrap(f.AckRanges[i - 1].First - ackRange.Last - 1)
           num == ((gap \div 255) + 1) - (IF gap % 255 = 0 THEN 1 ELSE 0)
           entries ==
             IF num = 1 THEN <<gap % 256>> \o WriteUintN(length, len, order)
             ELSE IF num = 0 THEN <<>>
             ELSE Placeholders(num - 1, len, order)
                    \o <<(1 + (Wrap(gap - 1) % 255)) % 256>>
                    \o WriteUintN(length, len, order)
           written == numRangesWritten + num
       IN IF written >= numRanges
            THEN [bytes |-> entries, written |-> written]
            ELSE LET rest == WriteAckRanges(f, order, len, i + 1, written, numRanges)
                 IN [bytes |-> entries \o rest.bytes, written |-> rest.written]

\* Write without the check of LowestAcked against the last range
Write_NoLowestCheck(f, version) ==
  LET ietf == UsesIETFAckFrame(version)
      order == GetByteOrder(version)
      largestAckedLen == GetPacketNumberLength(f.LargestAcked)
      len == getMissingSequenceNumberDeltaLen(f, version)
      numRanges == numWritableNackRanges(f)
      count == IF HasMissingRanges(f) THEN <<(numRanges - 1) % 256>> ELSE <<>>
      header ==
        <<AckTypeByte(f, version)>>
          \o (IF ietf THEN count ELSE <<>>)
          \o WriteUintN(f.LargestAcked, largestAckedLen, order)
          \o (IF ietf THEN <<>> ELSE WriteUfloat16(f.DelayTime.mantissa * 2 ^ f.DelayTime.shift, order))
          \o (IF ietf THEN <<>> ELSE count)
      firstAckBlockLength ==
        IF HasMissingRanges(f) THEN Wrap(f.LargestAcked - f.AckRanges[1].First + 1)
                               ELSE Wrap(f.LargestAcked - f.LowestAcked + 1)
      first == WriteUintN(firstAckBlockLength, len, order)
      ranges == WriteAckRanges(f, order, len, 2,
                               IF HasMissingRanges(f) THEN 1 ELSE 0, numRanges)
  IN IF numRanges > 255
       THEN WriteResult("panic: AckFrame: Too many ACK ranges", <<AckTypeByte(f, version)>>)
     ELSE IF HasMissingRanges(f) /\ f.LargestAcked # f.AckRanges[1].Last
       THEN WriteResult("errInconsistentAckLargestAcked", header)
     ELSE IF numRanges # ranges.written
       THEN WriteResult("BUG: Inconsistent number of ACK ranges written",
                        header \o first \o ranges.bytes)
     ELSE WriteResult("", header \o first \o ranges.bytes \o <<0>>)

\* AckFrame.Write; f.DelayTime is what time.Since(f.PacketReceivedTime) gives
Write(f, version) ==
  LET ietf == UsesIETFAckFrame(version)
      order == GetByteOrder(version)
      largestAckedLen == GetPacketNumberLength(f.LargestAcked)
      len == getMissingSequenceNumberDeltaLen(f, version)
      numRanges == numWritableNackRanges(f)
      count == IF HasMissingRanges(f) THEN <<(numRanges - 1) % 256>> ELSE <<>>
      header ==
        <<AckTypeByte(f, version)>>
          \o (IF ietf THEN count ELSE <<>>)
          \o WriteUintN(f.LargestAcked, largestAckedLen, order)
          \o (IF ietf THEN <<>> ELSE WriteUfloat16(f.DelayTime.mantissa * 2 ^ f.DelayTime.shift, order))
          \o (IF ietf THEN <<>> ELSE count)
      firstAckBlockLength ==
        IF HasMissingRanges(f) THEN Wrap(f.LargestAcked - f.AckRanges[1].First + 1)
                               ELSE Wrap(f.LargestAcked - f.LowestAcked + 1)
      first == WriteUintN(firstAckBlockLength, len, order)
      ranges == WriteAckRanges(f, order, len, 2,
                               IF HasMissingRanges(f) THEN 1 ELSE 0, numRanges)
  IN IF numRanges > 255
       THEN WriteResult("panic: AckFrame: Too many ACK ranges", <<AckTypeByte(f, version)>>)
     ELSE IF HasMissingRanges(f) /\ f.LargestAcked # f.AckRanges[1].Last
       THEN WriteResult("errInconsistentAckLargestAcked", header)
     ELSE IF HasMissingRanges(f) /\ f.LowestAcked # f.AckRanges[Len(f.AckRanges)].First
       THEN WriteResult("errInconsistentAckLowestAcked", header)
     ELSE IF numRanges # ranges.written
       THEN WriteResult("BUG: Inconsistent number of ACK ranges written",
                        header \o first \o ranges.bytes)
     ELSE WriteResult("", header \o first \o ranges.bytes \o <<0>>)

\* what the loop over the gap/length entries holds between two iterations
BlocksState(err, ranges, pos, inLongBlock, lastRangeComplete) ==
  [err |-> err, ranges |-> ranges, pos |-> pos, inLongBlock |-> inLongBlock,
   complete |-> lastRangeComplete]

\* ParseAckBlock of a parser that knows no long blocks: every entry starts
\* a new range
ParseAckBlock_NoLongBlock(b, order, len, st) ==
  IF Len(b) < st.pos + len THEN [st EXCEPT !.err = "EOF"]
  ELSE LET gap == b[st.pos]
           length == ReadUintN(b, st.pos + 1, len, order)
           last == Wrap(st.ranges[Len(st.ranges)].First - gap - 1)
       IN BlocksState("", Append(st.ranges, AckRange(Wrap(last - length + 1), last)),
                      st.pos + 1 + len, FALSE, length > 0)

\* ParseAckBlock of a parser that takes the end of the input for the end of
\* the entries
ParseAckBlock_StopsAtEnd(b, order, len, st) ==
  IF Len(b) < st.pos + len THEN [st EXCEPT !.complete = TRUE]
  ELSE LET gap == b[st.pos]
           length == ReadUintN(b, st.pos + 1, len, order)
           cur == st.ranges[Len(st.ranges)]
           last == Wrap(cur.First - gap - 1)
           next == IF st.inLongBlock
                     THEN [st.ranges EXCEPT ![Len(st.ranges)] =
                             AckRange(Wrap(cur.First - (gap + length)), Wrap(cur.Last - gap))]
                     ELSE Append(st.ranges, AckRange(Wrap(last - length + 1), last))
           complete == IF length > 0 THEN TRUE
                       ELSE IF st.inLongBlock THEN st.complete ELSE FALSE
       IN BlocksState("", next, st.pos + 1 + len, length = 0, complete)

\* ParseAckFrame: one iteration of the loop over the gap/length entries;
\* a read error ends the loop
ParseAckBlock(b, order, len, st) ==
  IF Len(b) < st.pos + len THEN [st EXCEPT !.err = "EOF"]
  ELSE LET gap == b[st.pos]
           length == ReadUintN(b, st.pos + 1, len, order)
           cur == st.ranges[Len(st.ranges)]
           last == Wrap(cur.First - gap - 1)
           next == IF st.inLongBlock
                     THEN [st.ranges EXCEPT ![Len(st.ranges)] =
                             AckRange(Wrap(cur.First - (gap + length)), Wrap(cur.Last - gap))]
                     ELSE Append(st.ranges, AckRange(Wrap(last - length + 1), last))
           complete == IF length > 0 THEN TRUE
                       ELSE IF st.inLongBlock THEN st.complete ELSE FALSE
       IN BlocksState("", next, st.pos + 1 + len, length = 0, complete)

\* ParseAckFrame: the iterations lo .. hi of the loop, one after the other,
\* from the state st; a read error ends the loop (the iterations are
\* halved, so that 255 entries are evaluated without deep nesting)
RECURSIVE ParseAckBlocks(_, _, _, _, _, _)
ParseAckBlocks(b, order, len, st, lo, hi) ==
  IF lo > hi THEN st
  ELSE IF lo = hi THEN ParseAckBlock(b, order, len, st)
  ELSE LET mid == (lo + hi) \div 2
           half == ParseAckBlocks(b, order, len, st, lo, mid)
       IN IF half.err # "" THEN half
          ELSE ParseAckBlocks(b, order, len, half, mid + 1, hi)

\* the bytes the timestamps section takes
TimestampsLength(numTimestamps) ==
  IF numTimestamps > 0 THEN 1 + 4 + (numTimestamps - 1) * (1 + 2) ELSE 0

\* CompleteRanges of a parser that keeps a last range left incomplete
CompleteRanges_KeepsLast(blocks) == blocks.ranges

\* ParseAckFrame behind the loop: a last range that was not completed is
\* removed from the ranges
CompleteRanges(blocks) ==
  IF blocks.complete THEN blocks.ranges
  ELSE SubSeq(blocks.ranges, 1, Len(blocks.ranges) - 1)

\* ParseAckFrame on the reader b: the fields are read front to back, and
\* each read fails with EOF when the bytes run out; read is the number of
\* bytes taken from the reader when a frame is returned (0 with an error)
ParseAckFrameReader(b, version) ==
  IF Len(b) < 1 THEN [err |-> "EOF", frame |-> NoFrame, read |-> 0]
  ELSE
  LET ietf == UsesIETFAckFrame(version)
      order == GetByteOrder(version)
      typeByte == b[1]
      hasMissingRanges == \/ ietf /\ BitAnd(typeByte, 16) = 16
                          \/ ~ietf /\ BitAnd(typeByte, 32) = 32
      largestAckedLen ==
        IF ietf THEN 2 ^ (BitAnd(typeByte, 12) \div 4)
        ELSE IF 2 * (BitAnd(typeByte, 12) \div 4) = 0 THEN 1
        ELSE 2 * (BitAnd(typeByte, 12) \div 4)
      len ==
        IF ietf THEN 2 ^ BitAnd(typeByte, 3)
        ELSE IF 2 * BitAnd(typeByte, 3) = 0 THEN 1
        ELSE 2 * BitAnd(typeByte, 3)
      posBlocksIETF == 2
      posTimestampsIETF == 2 + (IF ietf /\ hasMissingRanges THEN 1 ELSE 0)
      posLargest == posTimestampsIETF + (IF ietf THEN 1 ELSE 0)
      posDelay == posLargest + largestAckedLen
      posBlocksLegacy == posDelay + 2
      posFirst == posBlocksLegacy + (IF ~ietf /\ hasMissingRanges THEN 1 ELSE 0)
      posEntries == posFirst + len
      numAckBlocks == IF ~hasMissingRanges THEN 0
                      ELSE IF ietf THEN b[posBlocksIETF] ELSE b[posBlocksLegacy]
      largestAcked == ReadUintN(b, posLargest, largestAckedLen, order)
      delay == ReadUfloat16(b, posDelay, order)
      ackBlockLength == ReadUintN(b, posFirst, len, order)
      blocks == ParseAckBlocks(b, order, len,
                  BlocksState("",
                    <<AckRange(Wrap(largestAcked - ackBlockLength) + 1, largestAcked)>>,
                    posEntries, FALSE, FALSE),
                  1, numAckBlocks)
      ranges == IF ~hasMissingRanges THEN <<>>
                ELSE CompleteRanges(blocks)
      lowest == IF hasMissingRanges THEN ranges[Len(ranges)].First
                ELSE IF largestAcked = 0 THEN 0
                ELSE Wrap(largestAcked + 1 - ackBlockLength)
      frame == AckFrame(largestAcked, lowest, ranges, delay)
      posEnd == IF hasMissingRanges THEN blocks.pos ELSE posEntries
      numTimestamps == IF ietf THEN b[posTimestampsIETF] ELSE b[posEnd]
      posAfter == posEnd + (IF ietf THEN 0 ELSE 1)
  IN IF Len(b) < posFirst - 1 THEN [err |-> "EOF", frame |-> NoFrame, read |-> 0]
     ELSE IF hasMissingRanges /\ numAckBlocks = 0
       THEN [err |-> "ErrInvalidAckRanges", frame |-> NoFrame, read |-> 0]
     ELSE IF Len(b) < posEntries - 1 THEN [err |-> "EOF", frame |-> NoFrame, read |-> 0]
     ELSE IF largestAcked > 0 /\ ackBlockLength < 1
       THEN [err |-> "ErrInvalidFirstAckRange", frame |-> NoFrame, read |-> 0]
     ELSE IF ackBlockLength > largestAcked
       THEN [err |-> "ErrInvalidAckRanges", frame |-> NoFrame, read |-> 0]
     ELSE IF hasMissingRanges /\ blocks.err # "" THEN [err |-> blocks.err, frame |-> NoFrame, read |-> 0]
     ELSE IF ~validateAckRanges(frame) THEN [err |-> "ErrInvalidAckRanges", frame |-> NoFrame, read |-> 0]
     ELSE IF Len(b) < posAfter - 1 THEN [err |-> "EOF", frame |-> NoFrame, read |-> 0]
     ELSE IF Len(b) < posAfter - 1 + TimestampsLength(numTimestamps)
       THEN [err |-> "EOF", frame |-> NoFrame, read |-> 0]
     ELSE [err |-> "", frame |-> frame, read |-> posAfter - 1 + TimestampsLength(numTimestamps)]

ParseAckFrame(b, version) ==
  LET r == ParseAckFrameReader(b, version)
  IN ParseResult(r.err, r.frame)

\* the frames handed to Write: ranges over PacketNumbers, highest first,
\* not overlapping; LargestAcked and LowestAcked agree with the ranges or are
\* off by one; without ranges, any LowestAcked <= LargestAcked
RangeSet ==
  {r \in [First : PacketNumbers, Last : PacketNumbers] : r.First <= r.Last}

RECURSIVE RangeSeqs(_)
RangeSeqs(n) ==
  IF n = 0 THEN {<<>>}
  ELSE LET shorter == RangeSeqs(n - 1)
       IN shorter \cup
          {Append(p[1], p[2]) :
             p \in {pp \in shorter \X RangeSet :
                      /\ Len(pp[1]) = n - 1
                      /\ pp[1] # <<>> => pp[2].Last < pp[1][Len(pp[1])].First}}

Delays == {[mantissa |-> 0, shift |-> 0], [mantissa |-> 5000, shift |-> 0]}

AckFrames ==
  UNION {IF rs = <<>>
           THEN {AckFrame(p[1], p[2], rs, d) :
                   p \in {pp \in PacketNumbers \X PacketNumbers : pp[2] <= pp[1]},
                   d \in Delays}
           ELSE {AckFrame(la, lo, rs, d) :
                   la \in {rs[1].Last, rs[1].Last + 1},
                   lo \in {rs[Len(rs)].First, rs[Len(rs)].First + 1},
                   d \in Delays}
         : rs \in RangeSeqs(MaxRanges)}

\* where the codec stands: nothing done, written, parsed
AckOut(stage, err, bytes, frame) ==
  [stage |-> stage, err |-> err, bytes |-> bytes, frame |-> frame]
NoAckOut == AckOut("none", "", <<>>, NoFrame)

InitAck ==
  /\ perspective = "server"
  /\ streams = [q \in Quadrants |-> <<>>]
  /\ nextStream = [q \in Quadrants |-> firstStream(perspective, q)]
  /\ highestStream = [q \in Incoming |-> 0]
  /\ closeErr = [q \in Quadrants |-> NoErr]
  /\ waiters = [q \in Incoming |-> {}]
  /\ newStreamCalls = [q \in Quadrants |-> <<>>]
  /\ pc = [t \in AllThreads |-> "idle"]
  /\ arg = [t \in AllThreads |-> NoArg]
  /\ ret = NoRet
  /\ accepted = [q \in Incoming |-> <<>>]
  /\ opened = [q \in Outgoing |-> <<>>]
  /\ closedWith = NoErr
  /\ mutex = [q \in Incoming |-> Unlocked]
  /\ ackIn \in AckFrames
  /\ ackVersion \in Versions
  /\ ackOut = NoAckOut

\* f.Write(b, version) on an empty buffer
AckWrite ==
  /\ ackOut.stage = "none"
  /\ LET w == Write(ackIn, ackVersion)
     IN ackOut' = AckOut("written", w.err, w.bytes, NoFrame)
  /\ UNCHANGED <<ackIn, ackVersion>>
  /\ UNCHANGED mapVars

\* ParseAckFrame on the bytes a successful Write produced
AckParse ==
  /\ ackOut.stage = "written"
  /\ ackOut.err = ""
  /\ LET p == ParseAckFrame(ackOut.bytes, ackVersion)
     IN ackOut' = AckOut("parsed", p.err, ackOut.bytes, p.frame)
  /\ UNCHANGED <<ackIn, ackVersion>>
  /\ UNCHANGED mapVars

NextAck == AckWrite \/ AckParse

\* SpecAck: a frame is written, and what was written is parsed
SpecAck == InitAck /\ [][NextAck]_vars

\* the frames handed to ParseAckFrame as bytes from the peer: every field
\* the parser reads is chosen freely, so that the count of entries need not
\* agree with the entries that follow and the ranges need not be valid;
\* timestamps and a count of 0 come with frames of at most one entry
WireLargest == {<<1, 0>>, <<1, 1>>, <<1, 10>>, <<2, 600>>}
WireBlockLens == {1, 2}
WireFirst == {0, 1, 2, 11}
WireGaps == {0, 1, 255}
WireLengths == {0, 2}
WireTimestamps == {0, 1}

RECURSIVE WireEntrySeqs(_)
WireEntrySeqs(n) ==
  IF n = 0 THEN {<<>>}
  ELSE LET shorter == WireEntrySeqs(n - 1)
       IN shorter \cup
          {Append(p[1], p[2]) :
             p \in {pp \in shorter \X (WireGaps \X WireLengths) : Len(pp[1]) = n - 1}}

\* frames whose lengths are 8 bytes long (IETF dialect only) and reach the
\* largest values a packet number can take: LargestAcked 10, first block
\* length 1, one or two entries
WideGaps == {5, 10}
WideLengths == {0, 2, PNMod - 5, PNMod - 3}
WideEntrySeqs ==
  {<<e>> : e \in WideGaps \X WideLengths}
    \cup {<<e1, e2>> : e1 \in WideGaps \X WideLengths, e2 \in WideGaps \X WideLengths}

WideFields ==
  UNION {[missing : {TRUE}, largest : {<<1, 10>>}, blockLen : {8}, first : {1},
          numAckBlocks : {Len(es)}, entries : {es}, numTimestamps : {0}]
         : es \in WideEntrySeqs}

WireFields ==
  [missing : {FALSE}, largest : WireLargest, blockLen : WireBlockLens,
   first : WireFirst, numAckBlocks : {0}, entries : {<<>>},
   numTimestamps : WireTimestamps]
  \cup
  UNION {[missing : {TRUE}, largest : WireLargest, blockLen : WireBlockLens,
          first : WireFirst,
          numAckBlocks : {Len(es), Len(es) + 1} \cup (IF Len(es) <= 1 THEN {0} ELSE {}),
          entries : {es},
          numTimestamps : IF Len(es) <= 1 THEN WireTimestamps ELSE {0}]
         : es \in WireEntrySeqs(MaxEntries)}

RECURSIVE WireEntries(_, _, _)
WireEntries(es, len, order) ==
  IF es = <<>> THEN <<>>
  ELSE <<Head(es)[1]>> \o WriteUintN(Head(es)[2], len, order)
         \o WireEntries(Tail(es), len, order)

\* the bytes of the fields x in the order in which ParseAckFrame reads them
WireBytes(x, version) ==
  LET ietf == UsesIETFAckFrame(version)
      order == GetByteOrder(version)
      typeByte == (IF ietf THEN 160 ELSE 64)
                    + (IF x.missing THEN (IF ietf THEN 16 ELSE 32) ELSE 0)
                    + 4 * (x.largest[1] - 1)
                    + (CASE x.blockLen = 1 -> 0 [] x.blockLen = 2 -> 1
                         [] x.blockLen = 4 -> 2 [] OTHER -> 3)
      count == IF x.missing THEN <<x.numAckBlocks>> ELSE <<>>
      timestamps == IF x.numTimestamps > 0 THEN <<0, 0, 0, 0, 0>> ELSE <<>>
  IN <<typeByte>>
       \o (IF ietf THEN count \o <<x.numTimestamps>> ELSE <<>>)
       \o WriteUintN(x.largest[2], x.largest[1], order)
       \o <<0, 0>>
       \o (IF ietf THEN <<>> ELSE count)
       \o WriteUintN(x.first, x.blockLen, order)
       \o WireEntries(x.entries, x.blockLen, order)
       \o (IF ietf THEN <<>> ELSE <<x.numTimestamps>>)
       \o timestamps

InitParse ==
  /\ perspective = "server"
  /\ streams = [q \in Quadrants |-> <<>>]
  /\ nextStream = [q \in Quadrants |-> firstStream(perspective, q)]
  /\ highestStream = [q \in Incoming |-> 0]
  /\ closeErr = [q \in Quadrants |-> NoErr]
  /\ waiters = [q \in Incoming |-> {}]
  /\ newStreamCalls = [q \in Quadrants |-> <<>>]
  /\ pc = [t \in AllThreads |-> "idle"]
  /\ arg = [t \in AllThreads |-> NoArg]
  /\ ret = NoRet
  /\ accepted = [q \in Incoming |-> <<>>]
  /\ opened = [q \in Outgoing |-> <<>>]
  /\ closedWith = NoErr
  /\ mutex = [q \in Incoming |-> Unlocked]
  /\ ackIn = NoFrame
  /\ ackVersion \in Versions
  /\ \E x \in WireFields \cup (IF UsesIETFAckFrame(ackVersion) THEN WideFields ELSE {}) :
       ackOut = AckOut("received", "", WireBytes(x, ackVersion), NoFrame)

\* ParseAckFrame on a reader holding the received bytes
AckParseReceived ==
  /\ ackOut.stage = "received"
  /\ LET p == ParseAckFrame(ackOut.bytes, ackVersion)
     IN ackOut' = AckOut("decoded", p.err, ackOut.bytes, p.frame)
  /\ UNCHANGED <<ackIn, ackVersion>>
  /\ UNCHANGED mapVars

NextParse == AckParseReceived

\* SpecParse: bytes arrive from the peer and are parsed
SpecParse == InitParse /\ [][NextParse]_vars

\* the reader holds only the first n bytes of a frame that parsed and took
\* every byte of the input: the packet was cut short
AckParsePrefix ==
  /\ ackOut.stage = "decoded"
  /\ ackOut.err = ""
  /\ ParseAckFrameReader(ackOut.bytes, ackVersion).read = Len(ackOut.bytes)
  /\ \E n \in 0 .. Len(ackOut.bytes) - 1 :
       LET p == ParseAckFrame(SubSeq(ackOut.bytes, 1, n), ackVersion)
       IN ackOut' = AckOut("prefix", p.err, SubSeq(ackOut.bytes, 1, n), p.frame)
  /\ ackIn' = ackOut.frame
  /\ UNCHANGED ackVersion
  /\ UNCHANGED mapVars

NextPrefix == AckParseReceived \/ AckParsePrefix

\* SpecPrefix: bytes arrive and are parsed, then a truncated copy is parsed
SpecPrefix == InitParse /\ [][NextPrefix]_vars


\* AcksPacket that does not look at the ranges
AcksPacket_NoRanges(f, p) ==
  IF p < f.LowestAcked \/ p > f.LargestAcked THEN FALSE
  ELSE p >= f.LowestAcked /\ p <= f.LargestAcked

\* AckFrame.AcksPacket
AcksPacket(f, p) ==
  IF p < f.LowestAcked \/ p > f.LargestAcked THEN FALSE
  ELSE IF HasMissingRanges(f)
    THEN \E i \in 1 .. Len(f.AckRanges) :
           p >= f.AckRanges[i].First /\ p <= f.AckRanges[i].Last
  ELSE p >= f.LowestAcked /\ p <= f.LargestAcked

\* MinLength that counts the source ranges instead of the entries written
MinLength_CountsRanges(f, version) ==
  LET missingSequenceNumberDeltaLen == getMissingSequenceNumberDeltaLen(f, version)
  IN (1 + 2 + 1) + GetPacketNumberLength(f.LargestAcked)
       + (IF HasMissingRanges(f)
            THEN (1 + missingSequenceNumberDeltaLen) * Len(f.AckRanges)
            ELSE missingSequenceNumberDeltaLen)
       + (1 + 2) * 0

\* AckFrame.MinLength
MinLength(f, version) ==
  LET missingSequenceNumberDeltaLen == getMissingSequenceNumberDeltaLen(f, version)
  IN (1 + 2 + 1) + GetPacketNumberLength(f.LargestAcked)
       + (IF HasMissingRanges(f)
            THEN (1 + missingSequenceNumberDeltaLen) * numWritableNackRanges(f)
            ELSE missingSequenceNumberDeltaLen)
       + (1 + 2) * 0

\* the packet numbers AcksPacket is asked about: the ends of the ranges and
\* their neighbours
QueryPackets == PacketNumbers \cup {4, 6, 299, 301, 401}

\* the answer of a query on the frame ackIn
AckAnswer(op, p, acks, length) ==
  [stage |-> op, p |-> p, acks |-> acks, length |-> length]

\* f.AcksPacket(p)
AckAcksPacket ==
  /\ ackOut.stage = "none"
  /\ \E p \in QueryPackets :
       ackOut' = AckAnswer("AcksPacket", p, AcksPacket(ackIn, p), 0)
  /\ UNCHANGED <<ackIn, ackVersion>>
  /\ UNCHANGED mapVars

\* f.MinLength(version)
AckMinLength ==
  /\ ackOut.stage = "none"
  /\ ackOut' = AckAnswer("MinLength", 0, FALSE, MinLength(ackIn, ackVersion))
  /\ UNCHANGED <<ackIn, ackVersion>>
  /\ UNCHANGED mapVars

NextFrame == AckAcksPacket \/ AckMinLength

\* SpecFrame: a frame is asked whether it acknowledges a packet, or for
\* the length it will have when written
SpecFrame == InitAck /\ [][NextFrame]_vars


\* ================================================================ claims
\* the first stream IDs the documentation of the manager gives
DocFirst(q) ==
  IF perspective = "server"
    THEN CASE q = streamTypeOutgoingBidi -> 1 [] q = streamTypeIncomingBidi -> 4
           [] q = streamTypeOutgoingUni -> 3 [] OTHER -> 2
    ELSE CASE q = streamTypeOutgoingBidi -> 4 [] q = streamTypeIncomingBidi -> 1
           [] q = streamTypeOutgoingUni -> 2 [] OTHER -> 3

\* t is inside AcceptStream of quadrant q, parked or just signalled
Blocked(t, q) == pc[t] \in {"AcceptStream_Wait", "AcceptStream_Woken"} /\ arg[t].q = q

\* C1: in an incoming quadrant the IDs AcceptStream has returned so far are
\* the quadrant's first ID, then each the previous one + 4, and nextStream is
\* the last returned ID + 4 (the first ID when nothing was accepted yet)
C1_AcceptOrder ==
  \A q \in Incoming :
    /\ \A i \in 1 .. Len(accepted[q]) : accepted[q][i] = DocFirst(q) + 4 * (i - 1)
    /\ nextStream[q] = DocFirst(q) + 4 * Len(accepted[q])

\* two successive accepts have returned
C1_Witness == \E q \in Incoming : Len(accepted[q]) >= 2

\* C2: once closeErr is set to a non-nil error and the CloseWithError call
\* that set it has finished, no goroutine is left parked in AcceptStream
C2_CloseWakesAll ==
  \A q \in Incoming :
    (/\ closeErr[q] # NoErr
     /\ \A t \in AllThreads : ~(pc[t] = "CloseWithError_Signal" /\ arg[t].q = q))
    => waiters[q] = {}


\* the IDs of quadrant q from its first ID up to id
UpTo(q, id) == {k \in DocFirst(q) .. id : (k - DocFirst(q)) % 4 = 0}

\* C3: a call of OpenStream, OpenUniStream, AcceptStream or AcceptUniStream
\* that returns after a CloseWithError(e) of the manager, e non-nil, has
\* completed returns exactly e and no stream
C3_ClosedReturnsErr ==
  (/\ ret.op \in {"OpenStream", "OpenUniStream", "AcceptStream", "AcceptUniStream"}
   /\ ret.after # NoErr)
  => (ret.err = ret.after /\ ret.str = Nil)

\* C4: when GetOrOpenStream(id) of an incoming quadrant returns,
\* highestStream >= id, every ID of the quadrant up to id has been created
\* (so it is in the map unless it was deleted), and the call returns the
\* handle with the requested ID, or nil if that stream was deleted
C4_GetOrOpenPost ==
  [][\A t \in AllThreads :
       (pc[t] \in {"GetOrOpenStream_RLock", "GetOrOpenStream_Lock"} /\ pc'[t] = "idle")
       => LET q == arg[t].q
              id == arg[t].id
          IN /\ highestStream'[q] >= id
             /\ \A k \in UpTo(q, id) : k \in DOMAIN newStreamCalls'[q]
             /\ \A k \in UpTo(q, id) :
                  k \in DOMAIN streams'[q] => streams'[q][k].id = k
             /\ IF id \in DOMAIN streams'[q]
                  THEN ret'.str.id = id /\ ret'.str = streams'[q][id]
                  ELSE ret'.str = Nil
             /\ ret'.err = NoErr]_vars

\* C5: no lost wake-up.  While a goroutine is blocked in AcceptStream of an
\* open quadrant and the stream with ID nextStream is in the map, that
\* goroutine returns or another accepter takes the stream (nextStream moves
\* on); and the streams from the quadrant's first ID up to highestStream are
\* all in the map (nothing deletes here), so that on a server the accepter
\* gets 2, 6, 10 once GetOrOpenReceiveStream(10) ran
C5_NoLostWakeup ==
  /\ [](\A q \in Incoming :
          highestStream[q] # 0 => (UpTo(q, highestStream[q]) \subseteq DOMAIN streams[q]))
  /\ \A q \in Incoming : \A t \in QThreads : \A k \in 0 .. 3 :
       (Blocked(t, q) /\ Len(accepted[q]) = k /\ nextStream[q] \in DOMAIN streams[q])
         ~> (~Blocked(t, q) \/ Len(accepted[q]) > k)

\* the server's accepter has returned 2, 6 and 10 after GetOrOpenReceiveStream(10)
C5_Witness ==
  /\ perspective = "server"
  /\ accepted[streamTypeIncomingUni] = <<2, 6, 10>>
  /\ highestStream[streamTypeIncomingUni] = 10
  /\ {2, 6, 10} \subseteq DOMAIN streams[streamTypeIncomingUni]
  /\ ret.op = "AcceptUniStream" /\ ret.str.id = 10

\* a GetOrOpenSendStream or GetOrOpenReceiveStream call on an outgoing ID returns
OutgoingLookupReturns ==
  /\ ret' # ret
  /\ ret'.op \in {"GetOrOpenSendStream", "GetOrOpenReceiveStream"}
  /\ ret'.id % 4 = DocFirst(streamTypeOutgoingBidi) % 4
       \/ ret'.id % 4 = DocFirst(streamTypeOutgoingUni) % 4

\* the outgoing quadrant an ID belongs to
DocOutgoing(id) ==
  IF id % 4 = DocFirst(streamTypeOutgoingBidi) % 4 THEN streamTypeOutgoingBidi
                                                   ELSE streamTypeOutgoingUni

\* C7 as claimed: on an outgoing ID both calls fail with InvalidStreamID while
\* the ID is not opened (id >= nextStream) and create nothing; once it is
\* opened they return the handle with that ID
C7_Original ==
  [][OutgoingLookupReturns =>
       LET id == ret'.id
           q == DocOutgoing(id)
       IN IF id >= nextStream[q]
            THEN /\ ret'.err = Error("InvalidStreamID", "peer attempted to open stream", id)
                 /\ ret'.str = Nil
                 /\ UNCHANGED <<streams, nextStream, newStreamCalls>>
            ELSE ret'.err = NoErr /\ ret'.str.id = id]_vars

\* C7 amended: GetOrOpenReceiveStream on an outgoing unidirectional ID always
\* fails with "peer attempted to open receive stream"; the other calls fail
\* with InvalidStreamID while id >= nextStream, and below nextStream return
\* the map entry: the handle with that ID, or nil once it was deleted (or was
\* never handed out); nothing is created either way
C7_OutgoingLookup ==
  [][OutgoingLookupReturns =>
       LET id == ret'.id
           q == DocOutgoing(id)
       IN /\ UNCHANGED <<streams, nextStream, newStreamCalls>>
          /\ IF ret'.op = "GetOrOpenReceiveStream" /\ q = streamTypeOutgoingUni
               THEN /\ ret'.err = Error("error", "peer attempted to open receive stream", id)
                    /\ ret'.str = Nil
               ELSE IF id >= nextStream[q]
                 THEN /\ ret'.err = Error("InvalidStreamID", "peer attempted to open stream", id)
                      /\ ret'.str = Nil
                 ELSE /\ ret'.err = NoErr
                      /\ ret'.str = (IF id \in DOMAIN streams[q] THEN Handle(id, 1) ELSE Nil)]_vars

\* the peer referenced an outgoing ID beyond the ones opened so far, and
\* was refused
C7_Witness ==
  /\ ret.op = "GetOrOpenSendStream"
  /\ ret.err.kind = "InvalidStreamID"
  /\ ret.q = streamTypeOutgoingUni
  /\ opened[streamTypeOutgoingUni] # <<>>
  /\ ret.id = nextStream[streamTypeOutgoingUni]

\* the quadrant the documentation assigns an ID to: the one whose first ID
\* has the same residue modulo 4
DocType(id) == CHOOSE q \in Quadrants : id % 4 = DocFirst(q) % 4

\* the call op(id) returns
Returns(op) == ret' # ret /\ ret'.op = op

\* no quadrant's map, cursors, latch or factory count changes
QuadrantsUnchanged ==
  UNCHANGED <<streams, nextStream, highestStream, closeErr, newStreamCalls>>

\* C8: GetOrOpenReceiveStream(id) fails with "peer attempted to open receive
\* stream id" for every outgoing unidirectional id and changes no quadrant;
\* for an outgoing bidirectional id it answers as the outgoing quadrant's
\* GetStream does; for an incoming id it enters that quadrant's
\* GetOrOpenStream and returns what that returns
C8_ReceiveRouting ==
  [][/\ Returns("GetOrOpenReceiveStream") =>
          LET id == ret'.id
              q == DocType(id)
          IN /\ ret'.q = q
             /\ q = streamTypeOutgoingUni =>
                  /\ ret'.err = Error("error", "peer attempted to open receive stream", id)
                  /\ ret'.str = Nil
                  /\ QuadrantsUnchanged
             /\ q = streamTypeOutgoingBidi =>
                  /\ QuadrantsUnchanged
                  /\ IF id >= nextStream[q]
                       THEN /\ ret'.err.kind = "InvalidStreamID"
                            /\ ret'.str = Nil
                       ELSE /\ ret'.err = NoErr
                            /\ ret'.str = Lookup(q, id)
             /\ q \in Incoming =>
                  /\ ret'.err = NoErr
                  /\ ret'.str = (IF id \in DOMAIN streams'[q] THEN streams'[q][id] ELSE Nil)
                  /\ \A t \in AllThreads :
                       arg'[t] # arg[t] => pc[t] \in {"GetOrOpenStream_RLock", "GetOrOpenStream_Lock"}
     /\ \A t \in AllThreads :
          (arg'[t] # arg[t] /\ arg'[t].op = "GetOrOpenReceiveStream") =>
             /\ arg'[t].q = DocType(arg'[t].id)
             /\ arg'[t].q \in Incoming
             /\ pc'[t] = (IF arg'[t].id <= highestStream[arg'[t].q]
                            THEN "GetOrOpenStream_RLock" ELSE "GetOrOpenStream_Lock")
             /\ QuadrantsUnchanged]_vars

\* GetOrOpenReceiveStream was refused for an outgoing unidirectional stream
\* that this endpoint had opened
C8_Witness ==
  /\ ret.op = "GetOrOpenReceiveStream"
  /\ ret.q = streamTypeOutgoingUni
  /\ ret.id \in DOMAIN streams[streamTypeOutgoingUni]
  /\ ret.err.msg = "peer attempted to open receive stream"

\* GetOrOpenSendStream(id) on an incoming unidirectional id
SendOnIncomingUni ==
  /\ Returns("GetOrOpenSendStream") /\ DocType(ret'.id) = streamTypeIncomingUni =>
       /\ ret'.err = Error("error", "peer attempted to open send stream", ret'.id)
       /\ ret'.str = Nil
       /\ QuadrantsUnchanged
  /\ \A t \in AllThreads :
       (arg'[t] # arg[t] /\ arg'[t].op = "GetOrOpenSendStream") =>
          /\ arg'[t].q = streamTypeIncomingBidi
          /\ DocType(arg'[t].id) = streamTypeIncomingBidi

\* C9 as claimed: GetOrOpenSendStream(id) fails for every incoming
\* unidirectional id and creates nothing; for an incoming bidirectional id
\* (from the quadrant's first ID on) it returns the handle with that id
C9_Original ==
  [][/\ SendOnIncomingUni
     /\ (/\ Returns("GetOrOpenSendStream")
         /\ DocType(ret'.id) = streamTypeIncomingBidi
         /\ ret'.id >= DocFirst(streamTypeIncomingBidi)) =>
           /\ ret'.err = NoErr
           /\ ret'.str.id = ret'.id]_vars

\* C9 amended: as claimed for incoming unidirectional ids; for an incoming
\* bidirectional id every ID of the quadrant up to id has been created when
\* the call returns, and it returns without error the map entry of id: the
\* handle with that id, or nil if the stream is not in the map (it was
\* deleted, or id is below the quadrant's first ID)
C9_SendRouting ==
  [][/\ SendOnIncomingUni
     /\ (Returns("GetOrOpenSendStream") /\ DocType(ret'.id) = streamTypeIncomingBidi) =>
          LET id == ret'.id
              q == streamTypeIncomingBidi
          IN /\ ret'.err = NoErr
             /\ \A k \in UpTo(q, id) : k \in DOMAIN newStreamCalls'[q]
             /\ IF id \in DOMAIN streams'[q]
                  THEN ret'.str = streams'[q][id] /\ ret'.str.id = id
                  ELSE /\ ret'.str = Nil
                       /\ id < DocFirst(q) \/ id \in DOMAIN newStreamCalls'[q]]_vars

\* GetOrOpenSendStream returned nil for an incoming bidirectional stream
\* that had been opened and deleted
C9_Witness ==
  /\ ret.op = "GetOrOpenSendStream"
  /\ ret.q = streamTypeIncomingBidi
  /\ ret.id >= DocFirst(streamTypeIncomingBidi)
  /\ ret.err = NoErr
  /\ ret.str = Nil

\* C10: the IDs OpenStream (OpenUniStream) has handed out so far are the
\* first outgoing bidirectional (unidirectional) ID, then each the previous
\* one + 4; each cursor depends on its own quadrant's opens only; the factory
\* ran once per ID; and the call returns the stream with the ID it handed out
C10_OpenOrder ==
  /\ \A q \in Outgoing :
       /\ \A i \in 1 .. Len(opened[q]) : opened[q][i] = DocFirst(q) + 4 * (i - 1)
       /\ nextStream[q] = DocFirst(q) + 4 * Len(opened[q])
       /\ \A k \in DOMAIN newStreamCalls[q] : newStreamCalls[q][k] = 1
  /\ (ret.op = "OpenStream" /\ ret.err = NoErr) =>
       /\ opened[streamTypeOutgoingBidi] # <<>>
       /\ ret.str.id = opened[streamTypeOutgoingBidi][Len(opened[streamTypeOutgoingBidi])]
  /\ (ret.op = "OpenUniStream" /\ ret.err = NoErr) =>
       /\ opened[streamTypeOutgoingUni] # <<>>
       /\ ret.str.id = opened[streamTypeOutgoingUni][Len(opened[streamTypeOutgoingUni])]

\* both kinds of streams were opened, two of one kind
C10_Witness ==
  /\ Len(opened[streamTypeOutgoingBidi]) >= 2
  /\ Len(opened[streamTypeOutgoingUni]) >= 1
  /\ ret.op = "OpenStream" /\ ret.err = NoErr

\* a frame as the documentation asks for it: no ranges and LowestAcked <=
\* LargestAcked, or at least two ranges, highest first, each with First <=
\* Last, a gap of at least one packet between neighbours, LargestAcked the
\* Last of the first and LowestAcked the First of the last range
DocValidFrame(f) ==
  IF f.AckRanges = <<>> THEN f.LowestAcked <= f.LargestAcked
  ELSE /\ Len(f.AckRanges) >= 2
       /\ \A i \in 1 .. Len(f.AckRanges) : f.AckRanges[i].First <= f.AckRanges[i].Last
       /\ \A i \in 2 .. Len(f.AckRanges) :
            f.AckRanges[i - 1].First - f.AckRanges[i].Last - 1 >= 1
       /\ f.LargestAcked = f.AckRanges[1].Last
       /\ f.LowestAcked = f.AckRanges[Len(f.AckRanges)].First

\* C6: for a valid frame (that acknowledges no packet number 0) Write
\* succeeds in either dialect, and parsing what it wrote in the same dialect
\* succeeds and gives back LargestAcked, LowestAcked and AckRanges
C6_RoundTrip ==
  (DocValidFrame(ackIn) /\ ackIn.LowestAcked >= 1) =>
    /\ ackOut.stage = "written" => ackOut.err = ""
    /\ ackOut.stage = "parsed" =>
         /\ ackOut.err = ""
         /\ ackOut.frame.LargestAcked = ackIn.LargestAcked
         /\ ackOut.frame.LowestAcked = ackIn.LowestAcked
         /\ ackOut.frame.AckRanges = ackIn.AckRanges

\* the lookup op is answered by the quadrant of the ID (and not refused for
\* the direction of a unidirectional stream)
Routed(op, q) ==
  /\ ~(op = "GetOrOpenSendStream" /\ q = streamTypeIncomingUni)
  /\ ~(op = "GetOrOpenReceiveStream" /\ q = streamTypeOutgoingUni)

\* the stream id of quadrant q was created and is no longer in the map
Deleted(q, id) == id \in DOMAIN newStreamCalls[q] /\ id \notin DOMAIN streams[q]

\* C11: a GetOrOpenSendStream / GetOrOpenReceiveStream call that is answered
\* by the quadrant of a stream that was created and deleted returns a nil
\* stream and no error, and does not create the stream again: the factory is
\* not called and the map has no entry for the ID afterwards
C11_DeletedStaysDeleted ==
  [][\A op \in {"GetOrOpenSendStream", "GetOrOpenReceiveStream"} :
       (/\ Returns(op)
        /\ Routed(op, DocType(ret'.id))
        /\ Deleted(DocType(ret'.id), ret'.id)) =>
          /\ ret'.str = Nil
          /\ ret'.err = NoErr
          /\ newStreamCalls'[DocType(ret'.id)] = newStreamCalls[DocType(ret'.id)]
          /\ ret'.id \notin DOMAIN streams'[DocType(ret'.id)]]_vars

\* C12: DeleteStream(id) on an ID that is not in the map of its quadrant
\* returns an error and changes no quadrant's map, nextStream, highestStream
\* or closeErr; on an ID that is in the map it removes the entry, so that
\* deleting the same ID again fails
C12_DeleteUnknown ==
  [][Returns("DeleteStream") =>
       LET id == ret'.id
           q == DocType(id)
       IN /\ ret'.q = q
          /\ IF id \notin DOMAIN streams[q]
               THEN /\ ret'.err # NoErr
                    /\ QuadrantsUnchanged
               ELSE /\ ret'.err = NoErr
                    /\ id \notin DOMAIN streams'[q]]_vars

\* a stream was created and deleted, and deleting it once more has failed
C12_Witness ==
  /\ ret.op = "DeleteStream"
  /\ ret.err = Error("error", "Tried to delete unknown stream", ret.id)
  /\ ret.q \in Incoming
  /\ Deleted(ret.q, ret.id)

\* the quadrant of each residue modulo 4 as documented: server 0 incoming
\* bidi, 1 outgoing bidi, 2 incoming uni, 3 outgoing uni; client mirrored
DocResidue(p) ==
  IF p = "server"
    THEN <<streamTypeIncomingBidi, streamTypeOutgoingBidi,
           streamTypeIncomingUni, streamTypeOutgoingUni>>
    ELSE <<streamTypeOutgoingBidi, streamTypeIncomingBidi,
           streamTypeOutgoingUni, streamTypeIncomingUni>>

\* C13: every stream ID is classified by its residue modulo 4 and the
\* perspective as documented; each quadrant starts at its documented first ID,
\* and that ID is classified into the quadrant; every ID a quadrant has
\* created, and every ID a call works on in a quadrant, is classified into
\* that quadrant
C13_Classification ==
  /\ \A id \in 0 .. MaxStreamID + 4 :
       getStreamType(perspective, id) = DocResidue(perspective)[(id % 4) + 1]
  /\ \A q \in Quadrants :
       /\ firstStream(perspective, q) = DocFirst(q)
       /\ getStreamType(perspective, firstStream(perspective, q)) = q
       /\ \A id \in DOMAIN streams[q] \cup DOMAIN newStreamCalls[q] :
            /\ getStreamType(perspective, id) = q
            /\ id >= firstStream(perspective, q)
            /\ (id - firstStream(perspective, q)) % 4 = 0
  /\ \A t \in AllThreads :
       arg[t].op \in {"GetOrOpenSendStream", "GetOrOpenReceiveStream"} =>
         arg[t].q = getStreamType(perspective, arg[t].id)
  /\ ret.op \in {"GetOrOpenSendStream", "GetOrOpenReceiveStream", "DeleteStream"} =>
       ret.q = getStreamType(perspective, ret.id)

\* every quadrant has created a stream
C13_Witness == \A q \in Quadrants : streams[q] # <<>>

\* Write has succeeded: ackOut.bytes are the bytes it wrote
Written == (ackOut.stage = "written" /\ ackOut.err = "") \/ ackOut.stage = "parsed"

\* a gap/length entry
Entry(gap, length) == [gap |-> gap, length |-> length]

\* the n gap/length entries in the bytes b from position pos on, the
\* lengths being len bytes long
ReadEntries(b, pos, n, len, order) ==
  [k \in 1 .. n |->
     Entry(b[pos + (k - 1) * (1 + len)],
           ReadUintN(b, pos + (k - 1) * (1 + len) + 1, len, order))]

\* the entries documented for a range of the given length behind a gap g
DocEntriesOf(g, length) ==
  IF g <= 255 THEN <<Entry(g, length)>>
  ELSE LET real == 1 + ((g - 1) % 255)
       IN [k \in 1 .. (g - real) \div 255 |-> Entry(255, 0)] \o <<Entry(real, length)>>

\* the entries documented for the ranges i .. k of the frame f
RECURSIVE DocEntries(_, _, _)
DocEntries(f, i, k) ==
  IF i > k THEN <<>>
  ELSE DocEntriesOf(f.AckRanges[i - 1].First - f.AckRanges[i].Last - 1,
                    f.AckRanges[i].Last - f.AckRanges[i].First + 1)
         \o DocEntries(f, i + 1, k)

\* the last range of the frame f that fits the one-byte count: the entries
\* of the ranges up to and including it number fewer than 255
DocLastWritten(f) ==
  CHOOSE k \in 1 .. Len(f.AckRanges) :
    /\ Len(DocEntries(f, 2, k)) < 255
    /\ \A j \in k + 1 .. Len(f.AckRanges) : Len(DocEntries(f, 2, j)) >= 255

\* the length of the block lengths as the type byte of the bytes b gives it
DocBlockLen(b, version) ==
  IF version = "ietf" THEN 2 ^ (b[1] % 4)
  ELSE IF b[1] % 4 = 0 THEN 1 ELSE 2 * (b[1] % 4)

\* the length of LargestAcked as the type byte of the bytes b gives it
DocLargestLen(b, version) ==
  IF version = "ietf" THEN 2 ^ ((b[1] \div 4) % 4)
  ELSE IF (b[1] \div 4) % 4 = 0 THEN 1 ELSE 2 * ((b[1] \div 4) % 4)

\* where the gap/length entries start in the bytes b that Write wrote for a
\* frame with ranges: behind the type, the count, LargestAcked, the delay
\* (legacy dialect) and the first block length
DocEntriesPos(b, version) ==
  1 + 1 + DocLargestLen(b, version) + (IF version = "ietf" THEN 0 ELSE 2)
    + DocBlockLen(b, version) + 1

\* the sum of the gaps of the entries lo .. hi of es
RECURSIVE SumGaps(_, _, _)
SumGaps(es, lo, hi) ==
  IF lo > hi THEN 0
  ELSE IF lo = hi THEN es[lo].gap
  ELSE SumGaps(es, lo, (lo + hi) \div 2) + SumGaps(es, (lo + hi) \div 2 + 1, hi)

\* what is documented for the ranges 2 .. k of the frame ackIn holds of
\* the bytes that Write wrote: the entries behind the first block length
\* are, range by range, one entry (g, length) when the gap g to the previous
\* range is at most 255, otherwise placeholder entries (0xFF, 0) and then
\* one entry with gap 1 + ((g - 1) mod 255) and the length of the range, the
\* gaps adding up to g; then the byte 0 and nothing else
DocGapSplit(k) ==
  LET b == ackOut.bytes
      len == DocBlockLen(b, ackVersion)
      pos == DocEntriesPos(b, ackVersion)
      doc == DocEntries(ackIn, 2, k)
  IN /\ Len(b) = (pos - 1) + (1 + len) * Len(doc) + 1
     /\ ReadEntries(b, pos, Len(doc), len, GetByteOrder(ackVersion)) = doc
     /\ b[Len(b)] = 0
     /\ \A i \in 2 .. k :
          LET g == ackIn.AckRanges[i - 1].First - ackIn.AckRanges[i].Last - 1
              n == Len(DocEntries(ackIn, 2, i - 1))
              es == ReadEntries(b, pos + n * (1 + len),
                                Len(DocEntries(ackIn, 2, i)) - n, len,
                                GetByteOrder(ackVersion))
          IN /\ SumGaps(es, 1, Len(es)) = g
             /\ \A j \in 1 .. Len(es) - 1 : es[j] = Entry(255, 0)
             /\ es[Len(es)].gap = (IF g <= 255 THEN g ELSE 1 + ((g - 1) % 255))
             /\ es[Len(es)].length =
                  ackIn.AckRanges[i].Last - ackIn.AckRanges[i].First + 1

Decoded == ackOut.stage = "decoded" /\ ackOut.err = ""

\* the header of received bytes b as documented for parsing: the flag and
\* the two lengths from the type byte, then (IETF) the count of entries and
\* of timestamps, LargestAcked, the delay, (legacy) the count of entries,
\* the first block length
DocHeader(b, version) ==
  LET ietf == version = "ietf"
      missing == IF ietf THEN (b[1] \div 16) % 2 = 1 ELSE (b[1] \div 32) % 2 = 1
      m == IF missing THEN 1 ELSE 0
      laLen == DocLargestLen(b, version)
      blen == DocBlockLen(b, version)
      posLargest == IF ietf THEN 2 + m + 1 ELSE 2
      posCount == IF ietf THEN 2 ELSE posLargest + laLen + 2
      posFirst == IF ietf THEN posLargest + laLen + 2 ELSE posLargest + laLen + 2 + m
  IN [missing |-> missing, blockLen |-> blen, posCount |-> posCount,
      posLargest |-> posLargest, largestLen |-> laLen,
      posFirst |-> posFirst, posEntries |-> posFirst + blen]

\* fields of received bytes that are long enough to hold them
DocLargestAcked(b, version) ==
  ReadUintN(b, DocHeader(b, version).posLargest, DocHeader(b, version).largestLen,
            GetByteOrder(version))
DocFirstBlock(b, version) ==
  ReadUintN(b, DocHeader(b, version).posFirst, DocHeader(b, version).blockLen,
            GetByteOrder(version))
DocNumAckBlocks(b, version) ==
  IF DocHeader(b, version).missing THEN b[DocHeader(b, version).posCount] ELSE 0
DocWireEntries(b, version) ==
  ReadEntries(b, DocHeader(b, version).posEntries, DocNumAckBlocks(b, version),
              DocHeader(b, version).blockLen, GetByteOrder(version))

\* the ranges documented for the entries es behind the ranges found so far:
\* zero-length entries add their gap to the gap of the next entry with a
\* length, which yields one range; zero-length entries at the end yield none
RECURSIVE DocRangesOf(_, _, _)
DocRangesOf(es, ranges, gaps) ==
  IF es = <<>> THEN ranges
  ELSE IF Head(es).length = 0 THEN DocRangesOf(Tail(es), ranges, gaps + Head(es).gap)
  ELSE LET last == ranges[Len(ranges)].First - (gaps + Head(es).gap) - 1
       IN DocRangesOf(Tail(es), Append(ranges, AckRange(last - Head(es).length + 1, last)), 0)

\* ranges as values of the packet number type
AsPacketNumbers(ranges) ==
  [i \in 1 .. Len(ranges) |-> AckRange(Wrap(ranges[i].First), Wrap(ranges[i].Last))]

\* C15: in a frame with missing ranges that ParseAckFrame returns, the first
\* range ends at LargestAcked and has the first block length; each entry
\* with a nonzero length yields one further range with
\* Last = previous.First - (its gap + the gaps of the zero-length entries
\* right before it) - 1 and First = Last - length + 1, as packet numbers; so
\* the frame has 1 + (number of entries with nonzero length) ranges
C15_ParseBlocks ==
  (Decoded /\ DocHeader(ackOut.bytes, ackVersion).missing) =>
    LET b == ackOut.bytes
        la == DocLargestAcked(b, ackVersion)
        es == DocWireEntries(b, ackVersion)
    IN /\ ackOut.frame.AckRanges =
            AsPacketNumbers(
              DocRangesOf(es, <<AckRange(la - DocFirstBlock(b, ackVersion) + 1, la)>>, 0))
       /\ Len(ackOut.frame.AckRanges) =
            1 + Cardinality({i \in 1 .. Len(es) : es[i].length > 0})

\* a frame was parsed whose second range comes from two zero-length
\* entries and an entry with a length
C15_Witness ==
  /\ Decoded
  /\ DocHeader(ackOut.bytes, ackVersion).missing
  /\ LET es == DocWireEntries(ackOut.bytes, ackVersion)
     IN /\ Len(es) = 3
        /\ es[1].length = 0 /\ es[2].length = 0 /\ es[3].length > 0
        /\ es[1].gap = 255
  /\ Len(ackOut.frame.AckRanges) = 2

\* range validation as documented, on packet numbers as integers: no ranges,
\* or at least two; the first one ends at LargestAcked; every range has
\* 0 <= First <= Last; every range lies below its predecessor with at least
\* one packet between them
DocValidRanges(ranges, largest) ==
  \/ ranges = <<>>
  \/ /\ Len(ranges) >= 2
     /\ ranges[1].Last = largest
     /\ \A i \in 1 .. Len(ranges) : 0 <= ranges[i].First /\ ranges[i].First <= ranges[i].Last
     /\ \A i \in 2 .. Len(ranges) : ranges[i - 1].First > ranges[i].Last + 1

\* the received bytes b hold the header and n gap/length entries
DocHolds(b, version, n) ==
  Len(b) >= (DocHeader(b, version).posEntries - 1)
              + n * (1 + DocHeader(b, version).blockLen)

\* ParseAckFrame has returned the error err and no frame
Rejected(err) == ackOut.err = err /\ ackOut.frame = NoFrame

\* C16: for received bytes that hold the whole header, ParseAckFrame returns
\* no frame and, checking in this order: ErrInvalidAckRanges when the
\* has-missing-ranges flag is set and numAckBlocks is 0;
\* ErrInvalidFirstAckRange when LargestAcked > 0 and the first block length
\* is 0; ErrInvalidAckRanges when the first block length is greater than
\* LargestAcked; ErrInvalidAckRanges when all entries are there and the
\* ranges they stand for fail range validation
C16_ParseRejects ==
  (ackOut.stage = "decoded" /\ DocHolds(ackOut.bytes, ackVersion, 0)) =>
    LET b == ackOut.bytes
        h == DocHeader(b, ackVersion)
        la == DocLargestAcked(b, ackVersion)
        first == DocFirstBlock(b, ackVersion)
        n == DocNumAckBlocks(b, ackVersion)
    IN IF h.missing /\ n = 0 THEN Rejected("ErrInvalidAckRanges")
       ELSE IF la > 0 /\ first = 0 THEN Rejected("ErrInvalidFirstAckRange")
       ELSE IF first > la THEN Rejected("ErrInvalidAckRanges")
       ELSE IF /\ h.missing
               /\ DocHolds(b, ackVersion, n)
               /\ ~DocValidRanges(DocRangesOf(DocWireEntries(b, ackVersion),
                                              <<AckRange(la - first + 1, la)>>, 0), la)
         THEN Rejected("ErrInvalidAckRanges")
       ELSE TRUE

\* C17: parsing the legacy bytes 0x40 0x00 0x00 0x00 0x01 0x00 (type,
\* LargestAcked 0, delay 0, first block length 1, no timestamps) succeeds and
\* gives a frame with LargestAcked = 0, LowestAcked = 0 and no ranges
C17_ParseAckZero ==
  (/\ ackOut.stage = "decoded"
   /\ ackVersion = "legacy"
   /\ ackOut.bytes = <<64, 0, 0, 0, 1, 0>>) =>
     /\ ackOut.err = ""
     /\ ackOut.frame.LargestAcked = 0
     /\ ackOut.frame.LowestAcked = 0
     /\ ~HasMissingRanges(ackOut.frame)

\* C18: Write on a frame that has ranges returns errInconsistentAckLargestAcked
\* when LargestAcked is not the Last of the first range; otherwise
\* errInconsistentAckLowestAcked when LowestAcked is not the First of the last
\* range; otherwise neither of the two errors
C18_WriteConsistency ==
  (ackOut.stage = "written" /\ ackIn.AckRanges # <<>>) =>
    IF ackIn.LargestAcked # ackIn.AckRanges[1].Last
      THEN ackOut.err = "errInconsistentAckLargestAcked"
    ELSE IF ackIn.LowestAcked # ackIn.AckRanges[Len(ackIn.AckRanges)].First
      THEN ackOut.err = "errInconsistentAckLowestAcked"
    ELSE ackOut.err \notin {"errInconsistentAckLargestAcked", "errInconsistentAckLowestAcked"}

\* Write has refused a frame whose LargestAcked agrees with its first range
\* and whose LowestAcked disagrees with its last range
C18_Witness ==
  /\ ackOut.stage = "written"
  /\ ackIn.AckRanges # <<>>
  /\ ackIn.LargestAcked = ackIn.AckRanges[1].Last
  /\ ackIn.LowestAcked # ackIn.AckRanges[Len(ackIn.AckRanges)].First
  /\ ackOut.err = "errInconsistentAckLowestAcked"

\* the count byte in the bytes b that Write wrote for a frame with ranges
DocCountByte(b, version) ==
  IF version = "ietf" THEN b[2] ELSE b[1 + DocLargestLen(b, version) + 2 + 1]

\* C19 (count): when Write succeeds on a frame with ranges, the count byte
\* it wrote is the number of gap/length entries, placeholders included,
\* that follow the first block length (up to the closing byte 0)
C19_CountWritten ==
  (Written /\ ackIn.AckRanges # <<>>) =>
    LET b == ackOut.bytes
    IN (Len(b) - 1) - (DocEntriesPos(b, ackVersion) - 1)
         = DocCountByte(b, ackVersion) * (1 + DocBlockLen(b, ackVersion))

\* C19: the count byte is the number of entries written, and on a valid
\* frame Write neither panics with "Too many ACK ranges" nor returns
\* "Inconsistent number of ACK ranges written"
C19_WriteCount ==
  /\ C19_CountWritten
  /\ (ackOut.stage = "written" /\ DocValidFrame(ackIn)) =>
       ackOut.err \notin {"panic: AckFrame: Too many ACK ranges",
                          "BUG: Inconsistent number of ACK ranges written"}

\* C20: every frame that ParseAckFrame returns has no ranges or at least
\* two; its first range ends at LargestAcked; every range has First <= Last;
\* every range lies below its predecessor with at least one packet between
\* them (predecessor.First > range.Last + 1)
C20_ParsedValid ==
  Decoded => DocValidRanges(ackOut.frame.AckRanges, ackOut.frame.LargestAcked)

\* the packets a frame acknowledges as documented: those of its ranges, or
\* those from LowestAcked to LargestAcked when it has no ranges
DocAcked(f, p) ==
  IF f.AckRanges = <<>> THEN f.LowestAcked <= p /\ p <= f.LargestAcked
  ELSE \E i \in 1 .. Len(f.AckRanges) : f.AckRanges[i].First <= p /\ p <= f.AckRanges[i].Last

\* C21: AcksPacket(p) is false for p below LowestAcked or above
\* LargestAcked; for p from LowestAcked to LargestAcked it is true exactly
\* when the frame has no ranges or p lies in one of them; on a valid frame
\* it says whether p is one of the packets the frame acknowledges
C21_AcksPacket ==
  ackOut.stage = "AcksPacket" =>
    LET f == ackIn
        p == ackOut.p
    IN /\ (p < f.LowestAcked \/ p > f.LargestAcked) => ~ackOut.acks
       /\ (f.LowestAcked <= p /\ p <= f.LargestAcked) =>
            (ackOut.acks <=> (f.AckRanges = <<>> \/ DocAcked(f, p)))
       /\ DocValidFrame(f) => (ackOut.acks <=> DocAcked(f, p))

\* a valid frame with ranges was asked about a packet in the gap between
\* two of its ranges, and answered no
C21_Witness ==
  /\ ackOut.stage = "AcksPacket"
  /\ DocValidFrame(ackIn)
  /\ Len(ackIn.AckRanges) >= 2
  /\ ackIn.AckRanges[2].Last < ackOut.p /\ ackOut.p < ackIn.AckRanges[1].First
  /\ ~ackOut.acks

\* the fewest bytes, of the lengths 1, 2 and 4, that hold the number n
DocBytesFor(n) == IF n < 256 THEN 1 ELSE IF n < 65536 THEN 2 ELSE 4

\* the longest range of the frame f, or the distance from LowestAcked to
\* LargestAcked when it has no ranges
DocLongestRange(f) ==
  IF f.AckRanges = <<>> THEN f.LargestAcked - f.LowestAcked + 1
  ELSE CHOOSE n \in {f.AckRanges[i].Last - f.AckRanges[i].First + 1 : i \in 1 .. Len(f.AckRanges)} :
         \A i \in 1 .. Len(f.AckRanges) : f.AckRanges[i].Last - f.AckRanges[i].First + 1 <= n

\* the number of entries written for the frame f as documented: one for the
\* first range and those of the ranges that fit the one-byte count
DocWritableRanges(f) == 1 + Len(DocEntries(f, 2, DocLastWritten(f)))

\* C27: for a valid frame MinLength is 1 (type) + 2 (delay) + 1 (timestamp
\* count) + the length of LargestAcked + X, where X is (1 + blockLen) times
\* the number of entries written when the frame has ranges and blockLen
\* otherwise, blockLen being the length chosen for the longest range
C27_MinLength ==
  (ackOut.stage = "MinLength" /\ DocValidFrame(ackIn)) =>
    LET blockLen == DocBytesFor(DocLongestRange(ackIn))
    IN ackOut.length =
         1 + 2 + 1 + DocBytesFor(ackIn.LargestAcked)
           + (IF ackIn.AckRanges # <<>>
                THEN (1 + blockLen) * DocWritableRanges(ackIn)
                ELSE blockLen)

\* MinLength was asked of the frame with the ranges 300..400 and 1..2, whose
\* gap takes two entries: 1 + 2 + 1 + 2 + (1 + 1) * 3 = 12
C27_Witness ==
  /\ ackOut.stage = "MinLength"
  /\ ackIn.AckRanges = <<AckRange(300, 400), AckRange(1, 2)>>
  /\ ackIn.LargestAcked = 400 /\ ackIn.LowestAcked = 1
  /\ ackOut.length = 12

\* C22: in every quadrant the factory newStream has been called at most
\* once for every stream ID, and every handle in the map is the one the
\* first call for its ID produced
C22_CreatedOnce ==
  \A q \in Quadrants :
    /\ \A id \in DOMAIN newStreamCalls[q] : newStreamCalls[q][id] = 1
    /\ \A id \in DOMAIN streams[q] : streams[q][id] = Handle(id, 1)

\* n is congruent modulo 4 to the first ID of quadrant q
InResidue(q, n) == n % 4 = DocFirst(q) % 4

\* C23 as stated: in every state, the initial one included, nextStream and
\* highestStream of an incoming quadrant are congruent modulo 4 to the
\* quadrant's first ID
C23_ResiduesAlways ==
  \A q \in Incoming : InResidue(q, nextStream[q]) /\ InResidue(q, highestStream[q])

\* C23, amended: in every state nextStream of an incoming quadrant is
\* congruent modulo 4 to the quadrant's first ID; highestStream is 0 as long
\* as no stream of the quadrant has been created, and from then on it is
\* above 0 and congruent modulo 4 to the quadrant's first ID
C23_Residues ==
  \A q \in Incoming :
    /\ InResidue(q, nextStream[q])
    /\ IF newStreamCalls[q] = <<>> THEN highestStream[q] = 0
       ELSE highestStream[q] > 0 /\ InResidue(q, highestStream[q])

\* in a quadrant whose first ID is not a multiple of 4, streams were
\* requested and one was accepted
C23_Witness ==
  \E q \in Incoming :
    /\ DocFirst(q) % 4 # 0
    /\ highestStream[q] > DocFirst(q)
    /\ nextStream[q] > DocFirst(q)

\* the IDs of quadrant q's residue class from 1 to n
ResidueIDs(q, n) == {id \in 1 .. n : InResidue(q, id)}

\* the stream id of quadrant q leaves the map in this step
Removed(q, id) == id \in DOMAIN streams[q] /\ id \notin DOMAIN streams'[q]

\* C24 (states): in an incoming quadrant every ID of the quadrant's residue
\* class in (0, highestStream] is in the map or was created and has left it
C24_PresentOrGone ==
  \A q \in Incoming :
    \A id \in ResidueIDs(q, highestStream[q]) :
      id \in DOMAIN streams[q] \/ Deleted(q, id)

\* C24 (steps): a stream leaves the map of an incoming quadrant only in a
\* step in which DeleteStream returns without error for its ID
C24_OnlyDeleteRemoves ==
  \A q \in Incoming : \A id \in DOMAIN streams[q] :
    Removed(q, id) =>
      ret'.op = "DeleteStream" /\ ret'.q = q /\ ret'.id = id /\ ret'.err = NoErr

\* C24: in every state of an incoming quadrant, every ID in
\* (0, highestStream] of the quadrant's residue class is present in the map
\* or has been deleted by a successful DeleteStream
C24_UpToHighest == []C24_PresentOrGone /\ [][C24_OnlyDeleteRemoves]_vars

\* streams up to highestStream were created, one of them below
\* highestStream was deleted and highestStream itself is in the map
C24_Witness ==
  \E q \in Incoming :
    /\ highestStream[q] \in DOMAIN streams[q]
    /\ \E id \in ResidueIDs(q, highestStream[q]) : Deleted(q, id)
    /\ ret.op = "DeleteStream" /\ ret.err = NoErr

\* the operations of a quadrant other than AcceptStream
HandlerOps == {"GetOrOpenReceiveStream", "DeleteStream", "CloseWithError"}

\* goroutine t parks in cond.Wait() in this step
Parks(t) == pc[t] # "AcceptStream_Wait" /\ pc'[t] = "AcceptStream_Wait"

\* C25 (steps): a goroutine parks only inside AcceptStream, and only when it
\* found, with the mutex held, streams[nextStream] absent and closeErr unset
C25_ParksOnlyWhenNothing ==
  \A t \in AllThreads :
    Parks(t) =>
      /\ arg'[t].op \in {"AcceptStream", "AcceptUniStream"}
      /\ HoldsLock(t, arg'[t].q)
      /\ nextStream[arg'[t].q] \notin DOMAIN streams[arg'[t].q]
      /\ closeErr[arg'[t].q] = NoErr

\* C25 (states): the parked goroutines are accepters and none of them holds
\* the mutex
C25_ParkedReleased ==
  \A q \in Incoming : \A t \in waiters[q] :
    /\ arg[t].op \in {"AcceptStream", "AcceptUniStream"}
    /\ ~HoldsLock(t, q) /\ ~HoldsRLock(t, q)

\* the next step of goroutine t inside a call on the quadrant
StepOf(t) ==
  \/ MutexLock(t)
  \/ MutexRLock(t)
  \/ AcceptStreamLocked(t)
  \/ GetOrOpenStreamRLocked(t)
  \/ GetOrOpenStreamLocked(t)
  \/ DeleteStreamLocked(t)
  \/ CloseWithErrorLocked(t)
  \/ InCloseWithErrorSignal(t)

\* C25 (states): a goroutine inside GetOrOpenStream, DeleteStream or
\* CloseWithError can take its next step, or the mutex it waits for is held
\* by a goroutine that is not parked and can take its next step
C25_CanProceed ==
  \A t \in QThreads :
    arg[t].op \in HandlerOps =>
      \/ ENABLED StepOf(t)
      \/ \E u \in QThreads \ {t} :
           /\ HoldsLock(u, arg[t].q) \/ HoldsRLock(u, arg[t].q)
           /\ u \notin waiters[arg[t].q]
           /\ ENABLED StepOf(u)

\* C25: only AcceptStream suspends, it parks only when streams[nextStream]
\* is absent and closeErr is unset, it does not hold the mutex while parked,
\* and a GetOrOpenStream, DeleteStream or CloseWithError call is never stuck
\* however many accepters are parked
C25_OnlyAcceptSuspends ==
  /\ [][C25_ParksOnlyWhenNothing]_vars
  /\ []C25_ParkedReleased
  /\ []C25_CanProceed

\* two accepters are parked while a third goroutine is inside DeleteStream
\* with the mutex held
C25_Witness ==
  \E q \in Incoming : \E t \in QThreads :
    /\ Cardinality(waiters[q]) >= 2
    /\ arg[t].op = "DeleteStream" /\ HoldsLock(t, q)

\* this step changes the map, nextStream, highestStream or closeErr of q
Writes(q) ==
  \/ streams'[q] # streams[q]
  \/ nextStream'[q] # nextStream[q]
  \/ highestStream'[q] # highestStream[q]
  \/ closeErr'[q] # closeErr[q]

\* goroutine t comes back from a map lookup of quadrant q in this step: its
\* call returns, or it parks after finding streams[nextStream] absent
ReadsMap(t, q) ==
  /\ arg[t].q = q
  /\ arg[t].op \notin {"none", "CloseWithError"}
  /\ arg'[t] = NoArg \/ Parks(t)

\* the sections of the source between Lock() and Unlock()
WriteSections == {"AcceptStream_Locked", "GetOrOpenStream_Locked",
                  "DeleteStream_Locked", "CloseWithError_Locked"}

\* C26 (steps): a step that changes the quadrant's state is a step of the
\* goroutine holding the write lock, and a step that reads the map is a step
\* of a goroutine holding the read or the write lock
C26_UnderLock ==
  \A q \in Incoming :
    /\ Writes(q) => \E t \in AllThreads : HoldsLock(t, q) /\ pc'[t] # pc[t]
    /\ \A t \in AllThreads : ReadsMap(t, q) => HoldsLock(t, q) \/ HoldsRLock(t, q)

\* C26 (states): at most one goroutine is inside a write section, it is the
\* holder of the write lock, and no reader is inside then
C26_OneWriter ==
  \A q \in Incoming :
    LET inside == {t \in AllThreads : pc[t] \in WriteSections /\ arg[t].q = q}
    IN /\ Cardinality(inside) <= 1
       /\ \A t \in inside : HoldsLock(t, q) /\ mutex[q].r = {}

\* C26: the map, nextStream, highestStream and closeErr of an incoming
\* quadrant change only in steps of the holder of the write lock, the map is
\* read only by a holder of the read or write lock, and no two goroutines
\* are inside a write section at once
C26_LockDiscipline == [][C26_UnderLock]_vars /\ []C26_OneWriter

\* a goroutine is inside the creation path of GetOrOpenStream with the
\* write lock while a woken accepter waits in Lock() and another is parked
C26_Witness ==
  \E q \in Incoming : \E t, u, v \in QThreads :
    /\ pc[t] = "GetOrOpenStream_Locked" /\ HoldsLock(t, q)
    /\ pc[u] = "AcceptStream_Woken" /\ arg[u].q = q
    /\ v \in waiters[q]

\* Write does not emit every range of the frame f: the entries of the
\* ranges behind the first do not all fit the one-byte count
DocTruncated(f) == HasMissingRanges(f) /\ DocLastWritten(f) < Len(f.AckRanges)

\* the ranges of the frame f that fit the one-byte count
DocRetained(f) == SubSeq(f.AckRanges, 1, DocLastWritten(f))

\* C28 (count): numWritableNackRanges is at most 255 and is one plus the
\* number of entries of the ranges that fit as a whole
C28_WholeRanges ==
  DocValidFrame(ackIn) =>
    /\ numWritableNackRanges(ackIn) <= 255
    /\ HasMissingRanges(ackIn) => numWritableNackRanges(ackIn) = DocWritableRanges(ackIn)

\* C28 (written): when ranges are dropped Write succeeds and emits the
\* entries of the retained ranges and nothing else
C28_WritesPrefix ==
  (ackOut.stage \in {"written", "parsed"} /\ DocValidFrame(ackIn) /\ DocTruncated(ackIn)) =>
    /\ ackOut.err = "" \/ ackOut.stage = "parsed"
    /\ DocGapSplit(DocLastWritten(ackIn))

\* C28 (parsed): the bytes written for a frame with dropped ranges parse as
\* a valid frame whose ranges are the retained ones
C28_ParsesPrefix ==
  (ackOut.stage = "parsed" /\ DocValidFrame(ackIn) /\ DocTruncated(ackIn)) =>
    /\ ackOut.err = ""
    /\ ackOut.frame.AckRanges = DocRetained(ackIn)
    /\ DocValidRanges(ackOut.frame.AckRanges, ackOut.frame.LargestAcked)

\* C28: numWritableNackRanges never exceeds 255 and counts whole ranges
\* only; when ranges are dropped Write still succeeds, emits exactly the
\* entries of the retained prefix of ranges, and what it wrote parses as a
\* valid frame whose ranges are that prefix
C28_Truncation == C28_WholeRanges /\ C28_WritesPrefix /\ C28_ParsesPrefix

\* C28 with the cases left out that C19 and C6 account for: the dropped
\* ranges begin behind the second range, and the dialect is the legacy one
C28_LegacyLaterRange ==
  (ackVersion = "legacy" /\ HasMissingRanges(ackIn) /\ DocLastWritten(ackIn) >= 2)
    => C28_Truncation

\* a frame of three ranges whose third range is dropped was written and
\* parsed back as its first two ranges
C28_Reached ==
  /\ ackOut.stage = "parsed" /\ ackOut.err = ""
  /\ DocValidFrame(ackIn) /\ DocTruncated(ackIn)
  /\ Len(ackIn.AckRanges) = 3 /\ Len(ackOut.frame.AckRanges) = 2

\* C29: when the entries of received bytes end with a zero-length entry (the
\* last range is still tentative) and no read runs out of bytes, the frame ParseAckFrame works with has
\* the ranges completed before, its LowestAcked is the First of the last
\* of them, and range validation of these ranges alone decides whether the
\* frame is returned or rejected with ErrInvalidAckRanges
C29_TentativeDiscarded ==
  LET b == ackOut.bytes
      h == DocHeader(b, ackVersion)
      la == DocLargestAcked(b, ackVersion)
      first == DocFirstBlock(b, ackVersion)
      n == DocNumAckBlocks(b, ackVersion)
      es == DocWireEntries(b, ackVersion)
      completed == AsPacketNumbers(DocRangesOf(es, <<AckRange(la - first + 1, la)>>, 0))
      lowest == completed[Len(completed)].First
  IN (/\ ackOut.stage = "decoded"
      /\ DocHolds(b, ackVersion, 0)
      /\ h.missing /\ n >= 1
      /\ ~(la > 0 /\ first = 0) /\ first <= la
      /\ DocHolds(b, ackVersion, n) /\ ackOut.err # "EOF"
      /\ es[n].length = 0) =>
       IF validateAckRanges(AckFrame(la, lowest, completed, ackOut.frame.DelayTime))
         THEN /\ ackOut.err = ""
              /\ ackOut.frame.AckRanges = completed
              /\ ackOut.frame.LowestAcked = lowest
         ELSE Rejected("ErrInvalidAckRanges")

\* a frame was returned for three entries of which the last two have
\* length zero: it has two ranges
C29_Witness ==
  /\ Decoded
  /\ DocHeader(ackOut.bytes, ackVersion).missing
  /\ LET es == DocWireEntries(ackOut.bytes, ackVersion)
     IN /\ Len(es) = 3
        /\ es[1].length > 0 /\ es[2].length = 0 /\ es[3].length = 0
  /\ Len(ackOut.frame.AckRanges) = 2
  /\ ackOut.frame.LowestAcked = ackOut.frame.AckRanges[2].First

\* C30 for the frame ackIn: the first block length written is
\* LargestAcked - LowestAcked + 1, and parsing the bytes passes the
\* first-block checks and gives back LowestAcked
DocFirstBlockRoundTrip ==
  /\ Written => DocFirstBlock(ackOut.bytes, ackVersion)
                  = ackIn.LargestAcked - ackIn.LowestAcked + 1
  /\ ackOut.stage = "parsed" =>
       /\ ackOut.err = ""
       /\ ackOut.frame.LowestAcked = ackIn.LowestAcked
       /\ ackOut.frame.LowestAcked
            = ackIn.LargestAcked + 1 - DocFirstBlock(ackOut.bytes, ackVersion)

\* C30: in the legacy dialect, for a frame without ranges and with
\* LowestAcked <= LargestAcked (LowestAcked = 0 included), the first block
\* length Write emits is LargestAcked - LowestAcked + 1, it passes the
\* first-block checks of ParseAckFrame, and ParseAckFrame computes the same
\* LowestAcked from it
C30_FirstBlock ==
  (/\ ackVersion = "legacy"
   /\ ~HasMissingRanges(ackIn)
   /\ ackIn.LowestAcked <= ackIn.LargestAcked) => DocFirstBlockRoundTrip

\* C30 for the frames that do not acknowledge packet 0
C30_FromOne ==
  (/\ ackVersion = "legacy"
   /\ ~HasMissingRanges(ackIn)
   /\ 1 <= ackIn.LowestAcked /\ ackIn.LowestAcked <= ackIn.LargestAcked)
    => DocFirstBlockRoundTrip

\* the frame 3..400 without ranges was written and parsed back
C30_Reached ==
  /\ ackVersion = "legacy" /\ ackOut.stage = "parsed" /\ ackOut.err = ""
  /\ ackIn.AckRanges = <<>> /\ ackIn.LargestAcked = 400 /\ ackIn.LowestAcked = 3
  /\ ackOut.frame.LowestAcked = 3

\* the map, a cursor, the latch or the parked goroutines of quadrant q
\* change in this step
Touched(q) ==
  \/ streams'[q] # streams[q]
  \/ nextStream'[q] # nextStream[q]
  \/ closeErr'[q] # closeErr[q]
  \/ newStreamCalls'[q] # newStreamCalls[q]
  \/ q \in Incoming /\ (highestStream'[q] # highestStream[q] \/ waiters'[q] # waiters[q])

\* goroutine t takes this step (and is not merely woken by it)
Acts(t) ==
  \/ arg'[t] # arg[t]
  \/ pc'[t] # pc[t] /\ ~(pc[t] = "AcceptStream_Wait" /\ pc'[t] = "AcceptStream_Woken")

\* the calls this step belongs to, as operation and ID
StepCalls ==
  {<<arg[t].op, arg[t].id>> : t \in {u \in AllThreads : Acts(u) /\ arg[u] # NoArg}}
    \cup {<<arg'[t].op, arg'[t].id>> : t \in {u \in AllThreads : Acts(u) /\ arg'[u] # NoArg}}
    \cup (IF ret' # ret THEN {<<ret'.op, ret'.id>>} ELSE {})

\* the quadrant the documentation gives for a call
DocTarget(op, id) ==
  CASE op = "OpenStream" -> streamTypeOutgoingBidi
    [] op = "OpenUniStream" -> streamTypeOutgoingUni
    [] op = "AcceptStream" -> streamTypeIncomingBidi
    [] op = "AcceptUniStream" -> streamTypeIncomingUni
    [] OTHER -> DocType(id)

\* C31 (steps): a step that changes anything of a quadrant belongs to a
\* call addressed to that quadrant, or to CloseWithError
C31_OwnQuadrantOnly ==
  \A q \in Quadrants :
    Touched(q) =>
      /\ StepCalls # {}
      /\ \A c \in StepCalls : c[1] = "CloseWithError" \/ DocTarget(c[1], c[2]) = q

\* C31 (close): when CloseWithError(e) of the manager returns, e non-nil,
\* all four quadrants are closed
C31_CloseTouchesAll ==
  (Returns("CloseWithError") /\ ret'.q = "none" /\ ret'.err # NoErr) =>
    \A q \in Quadrants : closeErr'[q] # NoErr

\* C31: an Open*, Accept*, GetOrOpen*Stream(id) or DeleteStream(id) call
\* changes the state of the quadrant it is addressed to and of no other,
\* and wakes no goroutine of another quadrant; CloseWithError closes all four
C31_Independent == [][C31_OwnQuadrantOnly /\ C31_CloseTouchesAll]_vars

\* a stream is deleted from one quadrant while two others hold streams and
\* an accepter is parked in the fourth
C31_Witness ==
  /\ ret.op = "DeleteStream" /\ ret.err = NoErr
  /\ Cardinality({q \in Quadrants \ {ret.q} : streams[q] # <<>>}) >= 2
  /\ \E q \in Incoming \ {ret.q} : waiters[q] # {}

\* C32: in an incoming quadrant highestStream never decreases, whatever the
\* interleaving of concurrent GetOrOpenStream calls
C32_HighestMonotone ==
  [][\A q \in Incoming : highestStream'[q] >= highestStream[q]]_vars

\* the quadrant that stream 0 would belong to
ZeroQuadrant ==
  IF perspective = "server" THEN streamTypeIncomingBidi ELSE streamTypeOutgoingBidi

\* C33: no stream with ID 0 is ever created, held in a map or returned; the
\* quadrant of residue 0 (incoming bidirectional on the server, outgoing
\* bidirectional on the client) creates from 4 on, and
\* GetOrOpenReceiveStream(0) and GetOrOpenSendStream(0) return no handle
C33_NoStreamZero ==
  /\ \A q \in Quadrants : 0 \notin DOMAIN streams[q] /\ 0 \notin DOMAIN newStreamCalls[q]
  /\ \A id \in DOMAIN newStreamCalls[ZeroQuadrant] : id >= 4
  /\ ret.str.id # 0
  /\ (ret.op \in {"GetOrOpenReceiveStream", "GetOrOpenSendStream"} /\ ret.id = 0)
       => ret.str = Nil

\* a lookup of stream 0 has returned nil while stream 4 is in the map of
\* the quadrant of residue 0
C33_Witness ==
  /\ ret.op \in {"GetOrOpenReceiveStream", "GetOrOpenSendStream"}
  /\ ret.id = 0 /\ ret.str = Nil
  /\ 4 \in DOMAIN streams[ZeroQuadrant]

\* an Accept call of quadrant q returns a stream in this step
Accepts(q) ==
  /\ ret' # ret
  /\ ret'.op = (IF q = streamTypeIncomingBidi THEN "AcceptStream" ELSE "AcceptUniStream")
  /\ ret'.err = NoErr

\* C34 (states): no stream ID was returned by two Accept calls
C34_NoDuplicates ==
  \A q \in Incoming : \A i, j \in 1 .. Len(accepted[q]) :
    i # j => accepted[q][i] # accepted[q][j]

\* C34 (steps): a successful Accept returns the stream with the ID
\* nextStream and moves nextStream on by exactly 4, and nextStream moves in
\* no other step
C34_AdvancesByFour ==
  \A q \in Incoming :
    IF Accepts(q)
      THEN /\ ret'.str.id = nextStream[q]
           /\ accepted'[q] = Append(accepted[q], nextStream[q])
           /\ nextStream'[q] = nextStream[q] + 4
      ELSE nextStream'[q] = nextStream[q] /\ accepted'[q] = accepted[q]

\* C34: with several AcceptStream calls running concurrently on an incoming
\* quadrant, no two successful calls return the same ID, and nextStream
\* advances by exactly 4 per successful Accept
C34_AcceptOnce == []C34_NoDuplicates /\ [][C34_AdvancesByFour]_vars

\* of two concurrent Accept calls one has returned a stream, the other is
\* still inside AcceptStream, and two streams have been accepted so far
C34_Witness ==
  \E q \in Incoming :
    /\ Len(accepted[q]) >= 2
    /\ \E t \in AllThreads : Blocked(t, q)
    /\ ret.op \in {"AcceptStream", "AcceptUniStream"} /\ ret.err = NoErr

\* C35 (close): a step that changes closeErr of an incoming quadrant leaves
\* its map, nextStream, highestStream and factory counts alone
C35_CloseOnlyLatch ==
  \A q \in Incoming :
    closeErr'[q] # closeErr[q] =>
      /\ streams'[q] = streams[q]
      /\ nextStream'[q] = nextStream[q]
      /\ highestStream'[q] = highestStream[q]
      /\ newStreamCalls'[q] = newStreamCalls[q]

\* C35 (lookup): on a closed incoming quadrant GetOrOpenStream(id) returns
\* no error and the map entry of id, and on its creation path every ID up
\* to id that had not been created before is in the map afterwards
C35_ClosedStillOpens ==
  \A q \in Incoming :
    (closeErr[q] # NoErr /\ Returns("GetOrOpenReceiveStream") /\ ret'.q = q) =>
      /\ ret'.err = NoErr
      /\ ret'.str = (IF ret'.id \in DOMAIN streams'[q] THEN streams'[q][ret'.id] ELSE Nil)
      /\ \A t \in AllThreads :
           (pc[t] = "GetOrOpenStream_Lock" /\ pc'[t] = "idle") =>
             \A k \in UpTo(q, ret'.id) :
               k \notin DOMAIN newStreamCalls[q] =>
                 k \in DOMAIN streams'[q] /\ streams'[q][k] = Handle(k, 1)

\* C35 (delete): on a closed incoming quadrant DeleteStream(id) removes the
\* entry of id and returns no error, or returns an error when there is none
C35_ClosedStillDeletes ==
  \A q \in Incoming :
    (closeErr[q] # NoErr /\ Returns("DeleteStream") /\ ret'.q = q) =>
      IF ret'.id \in DOMAIN streams[q]
        THEN /\ ret'.err = NoErr
             /\ DOMAIN streams'[q] = DOMAIN streams[q] \ {ret'.id}
        ELSE ret'.err # NoErr /\ streams'[q] = streams[q]

\* C35: CloseWithError on an incoming quadrant changes closeErr only, and
\* afterwards GetOrOpenStream creates and returns streams and DeleteStream
\* removes them as before the close
C35_CloseLeavesStreams ==
  [][C35_CloseOnlyLatch /\ C35_ClosedStillOpens /\ C35_ClosedStillDeletes]_vars

\* on a quadrant closed with an error GetOrOpenStream has just created and
\* returned the stream that is now the highest one
C35_Witness ==
  /\ ret.op = "GetOrOpenReceiveStream" /\ ret.q \in Incoming
  /\ closeErr[ret.q] # NoErr
  /\ ret.str # Nil /\ ret.str.id = highestStream[ret.q]
  /\ ret.str.id > DocFirst(ret.q)
  /\ \A t \in AllThreads : pc[t] # "CloseWithError_Signal"

\* an AcceptStream call of quadrant q returns in this step
AcceptReturns(q) ==
  /\ ret' # ret
  /\ ret'.op = (IF q = streamTypeIncomingBidi THEN "AcceptStream" ELSE "AcceptUniStream")

\* C36 (error first): an AcceptStream that returns while closeErr holds a
\* non-nil error returns that error and no stream, also when the stream
\* with ID nextStream is in the map
C36_ErrorFirst ==
  \A q \in Incoming :
    (AcceptReturns(q) /\ closeErr[q] # NoErr) =>
      ret'.err = closeErr[q] /\ ret'.str = Nil

\* C36 (no effect): an AcceptStream that returns an error leaves nextStream,
\* the map and the list of accepted streams as they were
C36_FailureUnchanged ==
  \A q \in Incoming :
    (AcceptReturns(q) /\ ret'.err # NoErr) =>
      /\ nextStream'[q] = nextStream[q]
      /\ streams'[q] = streams[q]
      /\ accepted'[q] = accepted[q]
      /\ highestStream'[q] = highestStream[q]

\* C36: on an incoming quadrant closed with a non-nil error AcceptStream
\* returns the error even when the next stream is present, and the failed
\* call changes neither nextStream nor the map
C36_ClosedAcceptFails == [][C36_ErrorFirst /\ C36_FailureUnchanged]_vars

\* AcceptStream has returned the close error although the stream with ID
\* nextStream sits in the map, created and never accepted
C36_Witness ==
  \E q \in Incoming :
    /\ ret.op = (IF q = streamTypeIncomingBidi THEN "AcceptStream" ELSE "AcceptUniStream")
    /\ ret.err # NoErr /\ ret.err = closeErr[q] /\ ret.str = Nil
    /\ nextStream[q] \in DOMAIN streams[q]
    /\ nextStream[q] \notin {accepted[q][i] : i \in 1 .. Len(accepted[q])}

\* the stream with ID nextStream of quadrant q was created and then deleted
\* without having been accepted
NextDeleted(q) == Deleted(q, nextStream[q])

\* C37 (in order): AcceptStream returns the stream with ID nextStream and
\* no other, whatever higher IDs the map holds
C37_ReturnsNextOnly ==
  \A q \in Incoming :
    (AcceptReturns(q) /\ ret'.err = NoErr) =>
      /\ ret'.str.id = nextStream[q]
      /\ nextStream[q] \in DOMAIN streams[q]
      /\ ret'.str = streams[q][nextStream[q]]

\* C37 (stays blocked): once the stream with ID nextStream has been deleted
\* unaccepted, it stays deleted, nextStream stays where it is, AcceptStream
\* returns no stream, and a blocked accepter returns only with the close
\* error
C37_BlockedAtDeleted ==
  \A q \in Incoming :
    NextDeleted(q) =>
      /\ nextStream'[q] = nextStream[q]
      /\ nextStream[q] \notin DOMAIN streams'[q]
      /\ ~(AcceptReturns(q) /\ ret'.err = NoErr)
      /\ \A t \in AllThreads :
           (Blocked(t, q) /\ pc'[t] = "idle") => (closeErr[q] # NoErr /\ ret'.err = closeErr[q])

\* C37: AcceptStream never skips an ID; when the stream with ID nextStream
\* was deleted before being accepted it returns no stream with a higher ID
\* and stays blocked until CloseWithError, and no deleted stream is returned
C37_NeverSkips == [][C37_ReturnsNextOnly /\ C37_BlockedAtDeleted]_vars

\* the next stream was deleted unaccepted, higher IDs are in the map, and
\* an accepter that has been woken is parked again
C37_Witness ==
  \E q \in Incoming :
    /\ NextDeleted(q)
    /\ \E id \in DOMAIN streams[q] : id > nextStream[q]
    /\ closeErr[q] = NoErr
    /\ \E t \in AllThreads : pc[t] = "AcceptStream_Wait" /\ arg[t].q = q /\ t \in waiters[q]
    /\ ret.op = "DeleteStream" /\ ret.err = NoErr /\ ret.id = nextStream[q]


\* C38: for a valid frame, the number of bytes a successful Write appends
\* equals MinLength of the same frame and version, in both dialects
C38_WriteLength ==
  (ackOut.stage = "written" /\ ackOut.err = "" /\ DocValidFrame(ackIn)) =>
    Len(ackOut.bytes) = MinLength(ackIn, ackVersion)

\* the legacy half of C38: a successful legacy Write appends MinLength bytes
C38_LegacyLength ==
  (ackOut.stage = "written" /\ ackOut.err = "" /\ DocValidFrame(ackIn)
     /\ ~UsesIETFAckFrame(ackVersion)) =>
    Len(ackOut.bytes) = MinLength(ackIn, ackVersion)

\* the IETF half: a successful IETF Write appends two bytes fewer
C38_IETFShort ==
  (ackOut.stage = "written" /\ ackOut.err = "" /\ DocValidFrame(ackIn)
     /\ UsesIETFAckFrame(ackVersion)) =>
    Len(ackOut.bytes) = MinLength(ackIn, ackVersion) - 2

\* C39: parsing a strict prefix of a byte string that parses as one frame
\* returns the end-of-input error and no frame
C39_PrefixRejected ==
  ackOut.stage = "prefix" => (ackOut.err = "EOF" /\ ackOut.frame = NoFrame)

\* the bytes of a frame with ranges and timestamps, cut inside the
\* timestamp section, were refused
C39_Witness ==
  /\ ackOut.stage = "prefix"
  /\ ackOut.err = "EOF"
  /\ HasMissingRanges(ackIn)
  /\ Len(ackOut.bytes) >= 9

\* C40: every range of a frame ParseAckFrame returns lies inside the
\* acknowledged window, LowestAcked <= First <= Last <= LargestAcked; a
\* gap or length that wraps below packet number 0 is rejected
C40_InsideWindow ==
  Decoded =>
    \A i \in 1 .. Len(ackOut.frame.AckRanges) :
      /\ ackOut.frame.LowestAcked <= ackOut.frame.AckRanges[i].First
      /\ ackOut.frame.AckRanges[i].First <= ackOut.frame.AckRanges[i].Last
      /\ ackOut.frame.AckRanges[i].Last <= ackOut.frame.LargestAcked

\* the legacy half of C40: legacy lengths have at most 6 bytes, and every
\* returned legacy frame has its ranges inside the window
C40_LegacyInsideWindow == ~UsesIETFAckFrame(ackVersion) => C40_InsideWindow
====
